---- MODULE Spec2Model ----
(***************************************************************************)
(* The table engine of dapbase.connection.js: schema validation, insert,  *)
(* select, update, delete with cascade, field encryption, and the JSON     *)
(* file that holds each table.                                             *)
(***************************************************************************)
EXTENDS Integers, Sequences, FiniteSets, TLC

VARIABLES currentDb, disk, clock, last, batch, batch2, procs

vars == <<currentDb, disk, clock, last, batch, batch2, procs>>

(* Bounds of the model *)
MaxRows == 2
MaxClock == 1

(***************************************************************************)
(* JavaScript values.  A scalar is a record [k, n, s]:                     *)
(*   k  the kind: undef, null, str, num, inf (the number Infinity), bool   *)
(*   n  the number (num), or 0/1 (bool)                                    *)
(*   s  the characters (str)                                               *)
(* The object {encrypted: true, data} is [k |-> "enc", key, j, n, s]: the  *)
(* key the payload was enciphered with and the JSON text under the cipher. *)
(* Other values: [k |-> "ops", ops] an operator mapping of a where,        *)
(* [k |-> "arr", items] an array of scalars, [k |-> "obj", v] a row held   *)
(* as a value, [k |-> "list", v] an array of rows.                         *)
(* An object (a row, a column definition, a where) is a function from its  *)
(* keys to their values; <<>> is the object without keys.                  *)
(***************************************************************************)
Undef == [k |-> "undef", n |-> 0, s |-> ""]
Null == [k |-> "null", n |-> 0, s |-> ""]
Inf == [k |-> "inf", n |-> 0, s |-> ""]
Str(s) == [k |-> "str", n |-> 0, s |-> s]
Num(n) == [k |-> "num", n |-> n, s |-> ""]
Bool(b) == [k |-> "bool", n |-> IF b THEN 1 ELSE 0, s |-> ""]
EncObj(key, text) ==
    [k |-> "enc", key |-> key, j |-> text.j, n |-> text.n, s |-> text.s]

(* obj[f], undefined for a key the object does not have *)
Get(obj, f) == IF f \in DOMAIN obj THEN obj[f] ELSE Undef

(* Strings with a meaning to the code *)
Iso(t) == "t" \o ToString(t)
GenPool == {"g" \o ToString(i) : i \in 1..(MaxRows + 1)}
UuidStrings == {"u1", "u2", "u3"} \cup GenPool
NumericStr == ("5" :> 5) @@ ("" :> 0)

(***************************************************************************)
(* JavaScript operators on values                                          *)
(***************************************************************************)
(* a === b, and Array.includes: two objects parsed from a file are never   *)
(* the same object                                                         *)
StrictEq(a, b) == a.k \notin {"enc", "ops", "arr", "obj", "list"} /\ a = b

(* !!v *)
Truthy(v) ==
    CASE v.k \in {"undef", "null"} -> FALSE
      [] v.k = "str" -> v.s # ""
      [] v.k \in {"num", "bool"} -> v.n # 0
      [] OTHER -> TRUE

(* Number(v): an integer, Infinity or NaN (the model holds no fractions) *)
NumClass(v) ==
    CASE v.k \in {"num", "bool", "null"} -> "int"
      [] v.k = "inf" -> "inf"
      [] v.k = "str" -> IF v.s \in DOMAIN NumericStr THEN "int" ELSE "nan"
      [] OTHER -> "nan"

NumVal(v) ==
    CASE v.k \in {"num", "bool"} -> v.n
      [] v.k = "str" /\ v.s \in DOMAIN NumericStr -> NumericStr[v.s]
      [] OTHER -> 0

(* a < b, for operands that are not both strings *)
JsLt(a, b) ==
    /\ NumClass(a) = "int"
    /\ \/ NumClass(b) = "inf"
       \/ NumClass(b) = "int" /\ NumVal(a) < NumVal(b)

(* a > b, for operands that are not both strings *)
JsGt(a, b) ==
    /\ NumClass(b) = "int"
    /\ \/ NumClass(a) = "inf"
       \/ NumClass(a) = "int" /\ NumVal(a) > NumVal(b)

(* String(v) *)
StringOf(v) ==
    CASE v.k = "str" -> v.s
      [] v.k = "num" -> ToString(v.n)
      [] v.k = "bool" -> IF v.n = 1 THEN "true" ELSE "false"
      [] v.k = "inf" -> "Infinity"
      [] v.k = "null" -> "null"
      [] v.k = "undef" -> "undefined"
      [] OTHER -> "[object Object]"

(* RegExp(pattern).test(s), for the patterns the model's schemas use *)
PatternTest(pattern, s) ==
    CASE pattern = "^e" -> s \in {"e1", "e2"}

(* JSON.stringify of one scalar, as the token it writes: Infinity is       *)
(* written as null                                                         *)
JsonText(v) ==
    CASE v.k = "str" -> [j |-> "string", n |-> 0, s |-> v.s]
      [] v.k = "num" -> [j |-> "number", n |-> v.n, s |-> ""]
      [] v.k = "bool" -> [j |-> IF v.n = 1 THEN "true" ELSE "false", n |-> 0, s |-> ""]
      [] v.k \in {"null", "inf"} -> [j |-> "null", n |-> 0, s |-> ""]

(* JSON.parse of one token *)
JsonParse(text) ==
    CASE text.j = "string" -> Str(text.s)
      [] text.j = "number" -> Num(text.n)
      [] text.j = "true" -> Bool(TRUE)
      [] text.j = "false" -> Bool(FALSE)
      [] text.j = "null" -> Null

(* What a value is after JSON.stringify to the file and JSON.parse back:   *)
(* the tagged object comes back as an equal object                         *)
Persist(v) == IF v.k = "enc" THEN v ELSE JsonParse(JsonText(v))

(* A key holding undefined is not written *)
PersistRow(row) ==
    [f \in {g \in DOMAIN row : row[g].k # "undef"} |-> Persist(row[f])]

PersistRows(rows) == [i \in 1..Len(rows) |-> PersistRow(rows[i])]

(***************************************************************************)
(* validators.types                                                        *)
(***************************************************************************)
TypeOk(type, v) ==
    CASE type \in {"text", "string"} -> v.k = "str"
      [] type \in {"int", "integer"} -> NumClass(v) = "int"
      [] type \in {"float", "number"} -> NumClass(v) # "nan"
      [] type = "boolean" ->
            v.k = "bool" \/ StringOf(v) \in {"true", "false", "1", "0"}
      [] type = "uuid" -> v.k = "str" /\ v.s \in UuidStrings
      [] type \notin {"timestamp", "date", "json"} -> TRUE

(***************************************************************************)
(* SchemaValidator.validateRow                                             *)
(* A column definition is an object with the key type and, as given, the   *)
(* keys required, unique, min, max, minLength, maxLength, pattern, default *)
(***************************************************************************)
Has(definition, key) == key \in DOMAIN definition

Err(cond, kind, c) == IF cond THEN {[kind |-> kind, col |-> c]} ELSE {}

(* isNew: no existing row shares the row's id *)
IsNew(row, existingRows) ==
    ~ \E i \in 1..Len(existingRows) :
        StrictEq(Get(existingRows[i], "id"), Get(row, "id"))

(* existingValues.includes(value) *)
ExistingIncludes(existingRows, c, value) ==
    \E i \in 1..Len(existingRows) : StrictEq(Get(existingRows[i], c), value)

(* The unique constraint of one column *)
UniqueViolated(c, definition, row, existingRows) ==
    /\ Has(definition, "unique") /\ definition.unique
    /\ Get(row, c).k \notin {"undef", "null"}
    /\ ExistingIncludes(existingRows, c, Get(row, c))
    /\ IsNew(row, existingRows)

(* The required constraint of one column *)
RequiredViolated(c, definition, row) ==
    /\ Has(definition, "required") /\ definition.required
    /\ Get(row, c).k \in {"undef", "null"}

(* The violations of one declared column *)
ColumnErrors(c, definition, row, existingRows) ==
    LET value == Get(row, c)
        given == value.k \notin {"undef", "null"}
        len == Len(StringOf(value))
    IN  Err(/\ Has(definition, "type")
            /\ given
            /\ ~ TypeOk(definition.type, value),
            "type", c)
        \cup Err(RequiredViolated(c, definition, row), "required", c)
        \cup Err(UniqueViolated(c, definition, row, existingRows), "unique", c)
        \cup Err(Has(definition, "min") /\ given /\ JsLt(value, definition.min),
                 "min", c)
        \cup Err(Has(definition, "max") /\ given /\ JsGt(value, definition.max),
                 "max", c)
        \cup Err(/\ Has(definition, "minLength")
                 /\ given
                 /\ len < definition.minLength.n,
                 "minLength", c)
        \cup Err(/\ Has(definition, "maxLength")
                 /\ given
                 /\ len > definition.maxLength.n,
                 "maxLength", c)
        \cup Err(/\ Has(definition, "pattern")
                 /\ given
                 /\ ~ PatternTest(definition.pattern, StringOf(value)),
                 "pattern", c)

(* The fields of the row that the schema does not declare *)
(* Keys that every plain object, {} or one that JSON.parse made, answers   *)
(* with a truthy value from Object.prototype without having them          *)
InheritedKeys == {"constructor", "toString", "valueOf", "hasOwnProperty",
                  "__proto__"}

(* !schema[field] && field !== 'id' *)
ExtraFieldErrors(row, schema) ==
    {[kind |-> "extra", col |-> f] :
        f \in (DOMAIN row \ (DOMAIN schema \cup InheritedKeys)) \ {"id"}}

(* The row with the defaults of the absent fields *)
ApplyDefaults(row, schema) ==
    LET defaulted == {c \in DOMAIN schema :
                        Get(row, c).k = "undef" /\ Has(schema[c], "default")}
    IN  [f \in DOMAIN row \cup defaulted |->
            IF f \in defaulted THEN schema[f].default ELSE row[f]]

(* errors: the violations (non-empty: the call throws); row: validatedRow *)
ValidateRow(row, schema, existingRows) ==
    [errors |->
        UNION {ColumnErrors(c, schema[c], row, existingRows) : c \in DOMAIN schema}
        \cup ExtraFieldErrors(row, schema),
     row |-> ApplyDefaults(row, schema)]

(***************************************************************************)
(* Field cipher                                                            *)
(***************************************************************************)
(* _encryptField: no key leaves the value as it is *)
EncryptField(value, key) ==
    IF key = "" THEN value ELSE EncObj(key, JsonText(value))

(* A payload that is no cipher text of a JSON text: decipher.final or      *)
(* JSON.parse throws on it whatever the key                                *)
Garbage == [j |-> "garbage", n |-> 0, s |-> ""]

(* A cipher that gives the text back under any key *)
DecryptFieldAnyKey(encryptedObj, key) ==
    IF encryptedObj.k # "enc" \/ key = "" THEN encryptedObj
    ELSE IF encryptedObj.j = Garbage.j THEN encryptedObj
    ELSE JsonParse([j |-> encryptedObj.j, n |-> encryptedObj.n,
                    s |-> encryptedObj.s])

(* _decryptField: a payload of another key, or one that is garbage, does   *)
(* not decipher: the catch returns the object                              *)
DecryptField(encryptedObj, key) ==
    IF encryptedObj.k # "enc" \/ key = "" THEN encryptedObj
    ELSE IF encryptedObj.key # key \/ encryptedObj.j = Garbage.j
         THEN encryptedObj
    ELSE JsonParse([j |-> encryptedObj.j, n |-> encryptedObj.n,
                    s |-> encryptedObj.s])

(* options.encryption.key, "" when there is none *)
KeyOf(table) ==
    IF "key" \in DOMAIN table.options.encryption
    THEN table.options.encryption.key ELSE ""

(* options.encryption.fields, when the options have it *)
HasEncryptedFields(table) == "fields" \in DOMAIN table.options.encryption

EncryptedFields(table) ==
    IF HasEncryptedFields(table) THEN table.options.encryption.fields ELSE {}

(***************************************************************************)
(* The state                                                               *)
(*   currentDb  the selected database, "" before any use                   *)
(*   disk       per database folder and table name, the .table file        *)
(*   clock      the time new Date() reads                                  *)
(*   last       the latest call: its arguments and what it gave back; for  *)
(*              delete also before, the files as the call found them, and  *)
(*              for a delete that a failing write ended, written, the      *)
(*              files it had written by then, and failed, the file whose   *)
(*              write failed                                               *)
(*   batch      the insertMany call under way: its rows, the results it    *)
(*              holds so far and, at its end, what the caller receives     *)
(*   batch2     the same for a second insertMany call, started before the  *)
(*              first has ended                                            *)
(*   procs      the other processes that use the same folder: for each,    *)
(*              the call it is in and the file as it read it, and the log  *)
(*              of their reads and writes                                  *)
(***************************************************************************)
Databases == {"A", "B"}
TableNames == {"users", "posts", "comments"}
FieldSeq == <<"id", "name", "email", "age", "secret", "title", "user_id",
              "createdAt", "updatedAt", "manager_id", "author", "post_id">>

(* No file of that name *)
NoUnit == [exists |-> FALSE]

NoLast ==
    [op |-> "none", table |-> "", row |-> <<>>, where |-> <<>>,
     cascade |-> FALSE, res |-> "", errs |-> {}, ret |-> <<>>, count |-> 0,
     before |-> <<>>, options |-> <<>>, written |-> <<>>, failed |-> "",
     field |-> "", fn |-> "", definition |-> <<>>]

(* No insertMany call is under way *)
NoBatch == [active |-> FALSE]

(* The other processes, none of them in a call *)
ProcIds == {"p1", "p2"}
NoProcs == [at |-> [p \in ProcIds |-> [pc |-> "idle"]], log |-> <<>>]

Init ==
    /\ currentDb = ""
    /\ disk = [d \in Databases |-> [t \in TableNames |-> NoUnit]]
    /\ clock = 0
    /\ last = NoLast
    /\ batch = NoBatch
    /\ batch2 = NoBatch
    /\ procs = NoProcs

(* fs.existsSync(tablePath) *)
TableExists(t) == t \in TableNames /\ disk[currentDb][t].exists

(* The clock of the machine moves on between calls *)
Tick ==
    /\ clock < MaxClock
    /\ clock' = clock + 1
    /\ UNCHANGED <<currentDb, disk, last, batch, batch2, procs>>

(***************************************************************************)
(* use                                                                     *)
(***************************************************************************)
(* databaseName.trim(), for the names the model draws: one of them is      *)
(* written with blanks around it                                           *)
Trim(s) == IF s = " B " THEN "B" ELSE s

Use(databaseName) ==
    /\ IF ~ Truthy(databaseName) \/ databaseName.k # "str"
       THEN /\ last' = [NoLast EXCEPT !.op = "use", !.res = "bad_name"]
            /\ UNCHANGED currentDb
       ELSE /\ Trim(databaseName.s) \in Databases
            /\ currentDb' = Trim(databaseName.s)
            /\ last' = [NoLast EXCEPT !.op = "use", !.res = "ok"]
    /\ UNCHANGED <<disk, clock, batch, batch2, procs>>

(***************************************************************************)
(* createTable                                                             *)
(***************************************************************************)
(* A column as the caller writes it: a type name or a definition object *)
ColName(type) == [form |-> "string", type |-> type]
ColObj(def) == [form |-> "object", def |-> def]

(* normalizedColumns, with the id column added when the caller gave none *)
NormalizeColumns(columns) ==
    LET normalized ==
            [c \in DOMAIN columns |->
                IF columns[c].form = "string"
                THEN [type |-> columns[c].type]
                ELSE columns[c].def]
    IN  IF "id" \notin DOMAIN normalized
        THEN [c \in DOMAIN normalized \cup {"id"} |->
                IF c = "id" THEN [type |-> "uuid", required |-> TRUE]
                ELSE normalized[c]]
        ELSE normalized

(* tableData.  options is the caller's object: encryption and timestamps   *)
(* are keys it may have                                                    *)
NewTable(tableName, columns, relationships, options) ==
    [exists |-> TRUE, name |-> tableName, createdAt |-> Iso(clock),
     columns |-> NormalizeColumns(columns),
     relationships |-> relationships,
     rows |-> <<>>,
     indexes |-> <<>>,
     options |-> [encryption |-> IF "encryption" \in DOMAIN options
                                 THEN options.encryption ELSE <<>>,
                  timestamps |-> Get(options, "timestamps") # Bool(FALSE)]]

CreateTable(tableName, columns, relationships, options) ==
    LET res == IF currentDb = "" THEN "nodb"
               ELSE IF TableExists(tableName) THEN "exists"
               ELSE IF \E c \in DOMAIN columns :
                          columns[c].form \notin {"string", "object"}
                    THEN "bad_column"
               ELSE "ok"
    IN  /\ disk' = IF res = "ok"
                   THEN [disk EXCEPT ![currentDb][tableName] =
                            NewTable(tableName, columns, relationships, options)]
                   ELSE disk
        /\ last' = [NoLast EXCEPT !.op = "createTable", !.table = tableName,
                                  !.res = res]
        /\ UNCHANGED <<currentDb, clock, batch, batch2, procs>>

(***************************************************************************)
(* insert                                                                  *)
(***************************************************************************)
(* The strings some row of the selected database holds *)
UsedStrings ==
    IF currentDb = "" THEN {}
    ELSE UNION {{disk[currentDb][t].rows[i][f].s : f \in DOMAIN disk[currentDb][t].rows[i]}
                : <<t, i>> \in {x \in TableNames \X (1..MaxRows + 1) :
                                  /\ disk[currentDb][x[1]].exists
                                  /\ x[2] <= Len(disk[currentDb][x[1]].rows)}}

(* uuidv4(): an identifier no row holds *)
FreshUuids == GenPool \ UsedStrings

(* The id is generated after validation, for a uuid id column and a row    *)
(* whose id is falsy                                                       *)
NeedsUuid(table, row) ==
    /\ "id" \in DOMAIN table.columns
    /\ Get(table.columns["id"], "type") = "uuid"
    /\ ~ Truthy(Get(row, "id"))

(* row with row[f] = v *)
Set(row, f, v) == [g \in DOMAIN row \cup {f} |-> IF g = f THEN v ELSE row[g]]

WithUuid(table, row, uuid) ==
    IF NeedsUuid(table, row) THEN Set(row, "id", Str(uuid)) ELSE row

(* createdAt and updatedAt are set where the row has none *)
WithTimestamps(table, row, now) ==
    IF table.options.timestamps
    THEN LET created == IF Truthy(Get(row, "createdAt")) THEN row
                        ELSE Set(row, "createdAt", Str(now))
         IN  IF Truthy(Get(created, "updatedAt")) THEN created
             ELSE Set(created, "updatedAt", Str(now))
    ELSE row

(* Some row of the foreign table holds the local value as its key *)
ForeignRowExistsAnyRow(rel, value) ==
    Len(disk[currentDb][rel.foreignTable].rows) > 0

(* A check that looks the row up in the folder of every database *)
ForeignRowExistsAnyDatabase(rel, value) ==
    \E d \in Databases :
        /\ disk[d][rel.foreignTable].exists
        /\ \E j \in 1..Len(disk[d][rel.foreignTable].rows) :
              StrictEq(Get(disk[d][rel.foreignTable].rows[j], rel.foreignKey),
                       value)

ForeignRowExists(rel, value) ==
    LET foreignRows == disk[currentDb][rel.foreignTable].rows
    IN  \E j \in 1..Len(foreignRows) :
            StrictEq(Get(foreignRows[j], rel.foreignKey), value)

(* The foreign-key loop from field i on: the first relationship with a     *)
(* present local field that fails decides                                  *)
RECURSIVE ForeignKeyCheck(_, _, _)
ForeignKeyCheck(relationships, row, i) ==
    IF i > Len(FieldSeq) THEN "ok"
    ELSE LET field == FieldSeq[i]
             rel == relationships[field]
         IN  IF field \in DOMAIN relationships /\ Get(row, field).k # "undef"
             THEN IF ~ TableExists(rel.foreignTable) THEN "fk_notfound"
                  ELSE IF ~ ForeignRowExists(rel, row[field]) THEN "fk_violation"
                  ELSE ForeignKeyCheck(relationships, row, i + 1)
             ELSE ForeignKeyCheck(relationships, row, i + 1)

(* The configured fields that the row holds are enciphered *)
EncryptRow(table, row) ==
    [f \in DOMAIN row |->
        IF f \in EncryptedFields(table) /\ row[f].k # "undef"
        THEN EncryptField(row[f], KeyOf(table))
        ELSE row[f]]

(* insert with the file written before the foreign keys are looked at *)
InsertOutcomeWritesEarly(tableName, rowData, uuid) ==
    IF currentDb = ""
    THEN [res |-> "nodb", errs |-> {}, ret |-> <<>>, write |-> FALSE, rows |-> <<>>]
    ELSE IF ~ TableExists(tableName)
    THEN [res |-> "notfound", errs |-> {}, ret |-> <<>>, write |-> FALSE,
          rows |-> <<>>]
    ELSE
    LET table == disk[currentDb][tableName]
        validated == ValidateRow(rowData, table.columns, table.rows)
        stamped == WithTimestamps(table, WithUuid(table, validated.row, uuid),
                                  Iso(clock))
        fk == ForeignKeyCheck(table.relationships, stamped, 1)
        validatedRow == EncryptRow(table, stamped)
    IN  IF validated.errors # {}
        THEN [res |-> "validation", errs |-> validated.errors, ret |-> <<>>,
              write |-> FALSE, rows |-> table.rows]
        ELSE [res |-> fk, errs |-> {},
              ret |-> IF fk = "ok" THEN validatedRow ELSE <<>>,
              write |-> TRUE, rows |-> Append(table.rows, validatedRow)]

(* The whole call: res is "ok" or the error thrown; ret is the row         *)
(* returned; write tells whether the file is written, and rows is what     *)
(* table.rows holds then                                                   *)
(* insert, from the table as JSON.parse gave it *)
InsertInto(table, rowData, uuid) ==
    LET validated == ValidateRow(rowData, table.columns, table.rows)
        stamped == WithTimestamps(table, WithUuid(table, validated.row, uuid),
                                  Iso(clock))
        fk == ForeignKeyCheck(table.relationships, stamped, 1)
        validatedRow == EncryptRow(table, stamped)
    IN  IF validated.errors # {}
        THEN [res |-> "validation", errs |-> validated.errors, ret |-> <<>>,
              write |-> FALSE, rows |-> table.rows]
        ELSE IF fk # "ok"
        THEN [res |-> fk, errs |-> {}, ret |-> <<>>, write |-> FALSE,
              rows |-> table.rows]
        ELSE [res |-> "ok", errs |-> {}, ret |-> validatedRow, write |-> TRUE,
              rows |-> Append(table.rows, validatedRow)]

InsertOutcome(tableName, rowData, uuid) ==
    IF currentDb = ""
    THEN [res |-> "nodb", errs |-> {}, ret |-> <<>>, write |-> FALSE, rows |-> <<>>]
    ELSE IF ~ TableExists(tableName)
    THEN [res |-> "notfound", errs |-> {}, ret |-> <<>>, write |-> FALSE,
          rows |-> <<>>]
    ELSE InsertInto(disk[currentDb][tableName], rowData, uuid)

(* An insert that builds the hash data of every index anew *)
InsertRebuildsIndexes(tableName, rowData) ==
    /\ FreshUuids # {}
    /\ LET outcome == InsertOutcome(tableName, rowData,
                                    CHOOSE g \in FreshUuids : TRUE)
           rows == PersistRows(outcome.rows)
           Rebuilt(entry, field) ==
               IF "data" \in DOMAIN entry
               THEN [entry EXCEPT !.data =
                       [key \in {rows[i][field].s \o ToString(rows[i][field].n) :
                                    i \in {j \in 1..Len(rows) :
                                              field \in DOMAIN rows[j]}} |->
                           SelectSeq([i \in 1..Len(rows) |-> i - 1],
                                     LAMBDA idx :
                                        /\ field \in DOMAIN rows[idx + 1]
                                        /\ rows[idx + 1][field].s
                                             \o ToString(rows[idx + 1][field].n)
                                           = key)]]
               ELSE entry
       IN  /\ outcome.write => Len(outcome.rows) <= MaxRows
           /\ disk' = IF outcome.write
                      THEN [disk EXCEPT ![currentDb][tableName] =
                               [disk[currentDb][tableName] EXCEPT
                                    !.rows = rows,
                                    !.indexes =
                                        [f \in DOMAIN disk[currentDb][tableName].indexes |->
                                            Rebuilt(disk[currentDb][tableName].indexes[f],
                                                    f)]]]
                      ELSE disk
           /\ last' = [NoLast EXCEPT !.op = "insert", !.table = tableName,
                                     !.row = rowData, !.res = outcome.res,
                                     !.errs = outcome.errs,
                                     !.ret = IF outcome.res = "ok"
                                             THEN <<outcome.ret>> ELSE <<>>]
    /\ UNCHANGED <<currentDb, clock, batch, batch2, procs>>

Insert(tableName, rowData) ==
    /\ FreshUuids # {}
    /\ LET outcome == InsertOutcome(tableName, rowData,
                                    CHOOSE g \in FreshUuids : TRUE)
       IN  /\ outcome.write => Len(outcome.rows) <= MaxRows
           /\ disk' = IF outcome.write
                      THEN [disk EXCEPT ![currentDb][tableName].rows =
                               PersistRows(outcome.rows)]
                      ELSE disk
           /\ last' = [NoLast EXCEPT !.op = "insert", !.table = tableName,
                                     !.row = rowData, !.res = outcome.res,
                                     !.errs = outcome.errs,
                                     !.ret = IF outcome.res = "ok"
                                             THEN <<outcome.ret>> ELSE <<>>]
    /\ UNCHANGED <<currentDb, clock, batch, batch2, procs>>

(***************************************************************************)
(* select, with the where option (plain values)                            *)
(***************************************************************************)
(* Object.keys(where).every(k => row[k] === where[k]) *)
Matches(row, where) ==
    \A k \in DOMAIN where : StrictEq(Get(row, k), where[k])

(* The read path deciphers the configured fields that hold a tagged object *)
DecryptRow(table, row) ==
    [f \in DOMAIN row |->
        IF f \in EncryptedFields(table) /\ row[f].k = "enc"
        THEN DecryptField(row[f], KeyOf(table))
        ELSE row[f]]

SelectRows(table, where) ==
    LET decrypted == [i \in 1..Len(table.rows) |-> DecryptRow(table, table.rows[i])]
    IN  SelectSeq(decrypted, LAMBDA row : Matches(row, where))

Select(tableName, where) ==
    LET res == IF currentDb = "" THEN "nodb"
               ELSE IF ~ TableExists(tableName) THEN "notfound" ELSE "ok"
    IN  /\ last' = [NoLast EXCEPT !.op = "select", !.table = tableName,
                                  !.where = where, !.res = res,
                                  !.ret = IF res = "ok"
                                          THEN SelectRows(disk[currentDb][tableName],
                                                          where)
                                          ELSE <<>>]
        /\ UNCHANGED <<currentDb, disk, clock, batch, batch2, procs>>

(***************************************************************************)
(* select with its options: where with operators, join, orderBy, limit and *)
(* offset, fields.  options is the caller's object: a function from the    *)
(* keys it has.                                                            *)
(***************************************************************************)
Ops(mapping) == [k |-> "ops", ops |-> mapping]
Arr(items) == [k |-> "arr", items |-> items]
Obj(row) == [k |-> "obj", v |-> row]
List(rows) == [k |-> "list", v |-> rows]

(* a >= b and a <= b, for operands that are not both strings *)
JsGte(a, b) == NumClass(a) # "nan" /\ NumClass(b) # "nan" /\ ~ JsLt(a, b)
JsLte(a, b) == NumClass(a) # "nan" /\ NumClass(b) # "nan" /\ ~ JsGt(a, b)

(* s.includes(sub), for the short strings the model's rows hold *)
Affixes == {"", "a", "b"}
LikeTest(s, sub) == \E p \in Affixes, q \in Affixes : p \o sub \o q = s

(* array.includes(v) *)
ArrayIncludes(array, v) ==
    /\ array.k = "arr"
    /\ \E i \in 1..Len(array.items) : StrictEq(array.items[i], v)

(* One case of the switch on the operator *)
OperatorHolds(operator, rowValue, value, condition) ==
    CASE operator = "$eq" -> StrictEq(rowValue, value)
      [] operator = "$ne" -> ~ StrictEq(rowValue, value)
      [] operator = "$gt" -> JsGt(rowValue, value)
      [] operator = "$gte" -> JsGte(rowValue, value)
      [] operator = "$lt" -> JsLt(rowValue, value)
      [] operator = "$lte" -> JsLte(rowValue, value)
      [] operator = "$in" -> ArrayIncludes(value, rowValue)
      [] operator = "$nin" -> value.k = "arr" /\ ~ ArrayIncludes(value, rowValue)
      [] operator = "$like" -> LikeTest(StringOf(rowValue), StringOf(value))
      [] operator = "$regex" -> PatternTest(value.s, StringOf(rowValue))
      [] OTHER -> StrictEq(rowValue, condition)

(* An entry that holds as soon as one of its operators does *)
ConditionHoldsAnyOperator(row, key, condition) ==
    IF condition.k \in {"undef", "null"}
    THEN StrictEq(Get(row, key), condition)
    ELSE IF condition.k = "ops"
    THEN \E operator \in DOMAIN condition.ops :
            OperatorHolds(operator, Get(row, key), condition.ops[operator],
                          condition)
    ELSE IF condition.k = "arr"
    THEN ArrayIncludes(condition, Get(row, key))
    ELSE StrictEq(Get(row, key), condition)

(* One entry of options.where *)
ConditionHolds(row, key, condition) ==
    IF condition.k \in {"undef", "null"}
    THEN StrictEq(Get(row, key), condition)
    ELSE IF condition.k = "ops"
    THEN \A operator \in DOMAIN condition.ops :
            OperatorHolds(operator, Get(row, key), condition.ops[operator],
                          condition)
    ELSE IF condition.k = "arr"
    THEN ArrayIncludes(condition, Get(row, key))
    ELSE StrictEq(Get(row, key), condition)

(* The rows as select first holds them: deciphered when the table has      *)
(* encrypted fields                                                        *)
DecryptRows(table) ==
    IF HasEncryptedFields(table)
    THEN [i \in 1..Len(table.rows) |-> DecryptRow(table, table.rows[i])]
    ELSE table.rows

WhereFilter(rows, options) ==
    IF "where" \in DOMAIN options
    THEN SelectSeq(rows, LAMBDA row :
            \A key \in DOMAIN options.where :
                ConditionHolds(row, key, options.where[key]))
    ELSE rows

(* as and type of a join, with their defaults *)
JoinAs(join) == IF "as" \in DOMAIN join THEN join.as ELSE join.table
JoinType(join) == IF "type" \in DOMAIN join THEN join.type ELSE "left"

(* joinRows.filter(jrow => jrow[on.foreign] === row[on.local]) *)
Related(joinRows, join, row) ==
    SelectSeq(joinRows, LAMBDA jrow :
        StrictEq(Get(jrow, join.on.foreign), Get(row, join.on.local)))

(* The alias holding a list whenever some row matches *)
JoinSlotAlwaysList(related) ==
    IF Len(related) = 0 THEN Null ELSE List(related)

(* What goes under the alias *)
JoinSlot(related) ==
    IF Len(related) = 0 THEN Null
    ELSE IF Len(related) = 1 THEN Obj(related[1])
    ELSE List(related)

(* One join of the list.  A missing table empties the rows under inner     *)
(* and is passed over otherwise                                            *)
JoinOne(rows, join) ==
    IF ~ TableExists(join.table)
    THEN IF JoinType(join) = "inner" THEN <<>> ELSE rows
    ELSE LET joinRows == disk[currentDb][join.table].rows
             attached ==
                [i \in 1..Len(rows) |->
                    LET related == Related(joinRows, join, rows[i])
                    IN  [drop |-> JoinType(join) = "inner" /\ Len(related) = 0,
                         row |-> Set(rows[i], JoinAs(join), JoinSlot(related))]]
             kept == SelectSeq(attached, LAMBDA e : ~ e.drop)
         IN  [i \in 1..Len(kept) |-> kept[i].row]

RECURSIVE JoinFrom(_, _, _)
JoinFrom(rows, joins, i) ==
    IF i > Len(joins) THEN rows
    ELSE JoinFrom(JoinOne(rows, joins[i]), joins, i + 1)

JoinRows(rows, options) ==
    IF "join" \in DOMAIN options THEN JoinFrom(rows, options.join, 1) ELSE rows

(* aVal < bVal in the comparator.  A joined row reads "[object Object]"    *)
(* and a list of n of them n times that, so the shorter comes first        *)
ObjectRank(v) == IF v.k = "obj" THEN 1 ELSE Len(v.v)

SortLt(aVal, bVal) ==
    IF aVal.k \in {"obj", "list"} /\ bVal.k \in {"obj", "list"}
    THEN ObjectRank(aVal) < ObjectRank(bVal)
    ELSE JsLt(aVal, bVal)

(* The comparator handed to rows.sort *)
Compare(a, b, field, direction) ==
    LET aVal == Get(a, field)
        bVal == Get(b, field)
    IN  IF StrictEq(aVal, bVal) THEN 0
        ELSE IF aVal.k \in {"undef", "null"}
        THEN IF direction = "asc" THEN -1 ELSE 1
        ELSE IF bVal.k \in {"undef", "null"}
        THEN IF direction = "asc" THEN 1 ELSE -1
        ELSE LET comparison == IF SortLt(aVal, bVal) THEN -1 ELSE 1
             IN  IF direction = "asc" THEN comparison ELSE 0 - comparison

(* Array.prototype.sort on a short array: each element is inserted into    *)
(* the sorted part before it, after the elements it does not precede       *)
RECURSIVE InsertPos(_, _, _, _, _, _)
InsertPos(sorted, pivot, left, right, field, direction) ==
    IF left >= right THEN left
    ELSE LET mid == left + ((right - left) \div 2)
         IN  IF Compare(pivot, sorted[mid + 1], field, direction) < 0
             THEN InsertPos(sorted, pivot, left, mid, field, direction)
             ELSE InsertPos(sorted, pivot, mid + 1, right, field, direction)

RECURSIVE SortFrom(_, _, _, _)
SortFrom(rows, i, field, direction) ==
    IF i > Len(rows) THEN rows
    ELSE LET pos == InsertPos(rows, rows[i], 0, i - 1, field, direction)
             moved == SubSeq(rows, 1, pos) \o <<rows[i]>>
                      \o SubSeq(rows, pos + 1, i - 1)
                      \o SubSeq(rows, i + 1, Len(rows))
         IN  SortFrom(moved, i + 1, field, direction)

(* orderBy is a field name or the pair of a field and a direction *)
SortRows(rows, options) ==
    IF "orderBy" \in DOMAIN options
    THEN SortFrom(rows, 2, options.orderBy.field,
                  IF "direction" \in DOMAIN options.orderBy
                  THEN options.orderBy.direction ELSE "asc")
    ELSE rows

(* rows.slice(start, end) *)
SliceIndex(x, n) ==
    IF x < 0 THEN (IF n + x < 0 THEN 0 ELSE n + x) ELSE (IF x > n THEN n ELSE x)

Slice(rows, start, end) ==
    SubSeq(rows, SliceIndex(start, Len(rows)) + 1, SliceIndex(end, Len(rows)))

(* Pagination that takes limit for the end of the slice *)
PaginateLimitAsEnd(rows, options) ==
    LET givenOffset == Get(options, "offset")
        givenLimit == Get(options, "limit")
    IN  IF Truthy(givenLimit) \/ Truthy(givenOffset)
        THEN LET offset == IF Truthy(givenOffset) THEN givenOffset.n ELSE 0
                 limit == IF Truthy(givenLimit) THEN givenLimit.n ELSE Len(rows)
             IN  Slice(rows, offset, limit)
        ELSE rows

Paginate(rows, options) ==
    LET givenOffset == Get(options, "offset")
        givenLimit == Get(options, "limit")
    IN  IF Truthy(givenLimit) \/ Truthy(givenOffset)
        THEN LET offset == IF Truthy(givenOffset) THEN givenOffset.n ELSE 0
                 limit == IF Truthy(givenLimit) THEN givenLimit.n ELSE Len(rows)
             IN  Slice(rows, offset, offset + limit)
        ELSE rows

(* Each row reduced to the listed fields it holds *)
Project(rows, options) ==
    IF "fields" \in DOMAIN options
    THEN [i \in 1..Len(rows) |->
            [f \in {g \in options.fields : Get(rows[i], g).k # "undef"} |->
                rows[i][f]]]
    ELSE rows

(* select that cuts the page before it sorts *)
SelectResultPagedFirst(tableName, options) ==
    LET table == disk[currentDb][tableName]
        decrypted == DecryptRows(table)
        filtered == WhereFilter(decrypted, options)
        joined == JoinRows(filtered, options)
        paged == Paginate(joined, options)
        sorted == SortRows(paged, options)
    IN  Project(sorted, options)

(* The rows select returns *)
SelectResult(tableName, options) ==
    LET table == disk[currentDb][tableName]
        decrypted == DecryptRows(table)
        filtered == WhereFilter(decrypted, options)
        joined == JoinRows(filtered, options)
        sorted == SortRows(joined, options)
        paged == Paginate(sorted, options)
    IN  Project(paged, options)

(* select that sorts the rows of the file, not its copy of them *)
SelectQuerySortsFile(tableName, options) ==
    LET res == IF currentDb = "" THEN "nodb"
               ELSE IF ~ TableExists(tableName) THEN "notfound" ELSE "ok"
    IN  /\ last' = [NoLast EXCEPT !.op = "select", !.table = tableName,
                                  !.options = options, !.res = res,
                                  !.ret = IF res = "ok"
                                          THEN SelectResult(tableName, options)
                                          ELSE <<>>]
        /\ disk' = IF res = "ok"
                   THEN [disk EXCEPT ![currentDb][tableName].rows =
                            SortRows(disk[currentDb][tableName].rows, options)]
                   ELSE disk
        /\ UNCHANGED <<currentDb, clock, batch, batch2, procs>>

SelectQuery(tableName, options) ==
    LET res == IF currentDb = "" THEN "nodb"
               ELSE IF ~ TableExists(tableName) THEN "notfound" ELSE "ok"
    IN  /\ last' = [NoLast EXCEPT !.op = "select", !.table = tableName,
                                  !.options = options, !.res = res,
                                  !.ret = IF res = "ok"
                                          THEN SelectResult(tableName, options)
                                          ELSE <<>>]
        /\ UNCHANGED <<currentDb, disk, clock, batch, batch2, procs>>

(***************************************************************************)
(* update                                                                  *)
(***************************************************************************)
(* { ...row, ...updates } *)
Merge(row, updates) == updates @@ row

(* Fields not yet tagged are enciphered again *)
ReEncryptRow(table, row) ==
    [f \in DOMAIN row |->
        IF f \in EncryptedFields(table) /\ row[f].k \notin {"undef", "enc"}
        THEN EncryptField(row[f], KeyOf(table))
        ELSE row[f]]

(* The rows the updated row is validated against *)
OtherRows(table, row) ==
    SelectSeq(table.rows, LAMBDA r : ~ StrictEq(Get(r, "id"), Get(row, "id")))

(* The row that passed re-validation, with updatedAt set anew *)
Restamp(table, row, now) ==
    IF table.options.timestamps THEN Set(row, "updatedAt", Str(now)) ELSE row

(* A matching row that takes the patch although re-validation failed *)
UpdateRowAppliesAnyway(table, row, updates, now) ==
    LET validated == ValidateRow(Merge(row, updates), table.columns,
                                 OtherRows(table, row))
    IN  [ok |-> validated.errors = {},
         row |-> ReEncryptRow(table, Restamp(table, validated.row, now))]

(* One matching row: ok tells whether re-validation passed, row is what    *)
(* the map callback returns                                                *)
UpdateRow(table, row, updates, now) ==
    LET validated == ValidateRow(Merge(row, updates), table.columns,
                                 OtherRows(table, row))
    IN  IF validated.errors = {}
        THEN [ok |-> TRUE,
              row |-> ReEncryptRow(table, Restamp(table, validated.row, now))]
        ELSE [ok |-> FALSE, row |-> row]

(* update, from the table as JSON.parse gave it *)
UpdateRows(table, updates, where) ==
    LET each == [i \in 1..Len(table.rows) |->
                    IF Matches(table.rows[i], where)
                    THEN UpdateRow(table, table.rows[i], updates, Iso(clock))
                    ELSE [ok |-> FALSE, row |-> table.rows[i]]]
        updatedRows == SelectSeq(each, LAMBDA e : e.ok)
    IN  [res |-> "ok", count |-> Len(updatedRows),
         ret |-> [i \in 1..Len(updatedRows) |-> updatedRows[i].row],
         rows |-> [i \in 1..Len(each) |-> each[i].row]]

UpdateOutcome(tableName, updates, where) ==
    IF currentDb = "" THEN [res |-> "nodb", count |-> 0, ret |-> <<>>, rows |-> <<>>]
    ELSE IF ~ TableExists(tableName)
    THEN [res |-> "notfound", count |-> 0, ret |-> <<>>, rows |-> <<>>]
    ELSE UpdateRows(disk[currentDb][tableName], updates, where)

Update(tableName, updates, where) ==
    LET outcome == UpdateOutcome(tableName, updates, where)
    IN  /\ disk' = IF outcome.res = "ok" /\ outcome.count > 0
                   THEN [disk EXCEPT ![currentDb][tableName].rows =
                            PersistRows(outcome.rows)]
                   ELSE disk
        /\ last' = [NoLast EXCEPT !.op = "update", !.table = tableName,
                                  !.row = updates, !.where = where,
                                  !.res = outcome.res, !.ret = outcome.ret,
                                  !.count = outcome.count]
        /\ UNCHANGED <<currentDb, clock, batch, batch2, procs>>

(***************************************************************************)
(* delete                                                                  *)
(***************************************************************************)
(* idsToDelete.includes(v) *)
IdsInclude(rowsToDelete, v) ==
    \E i \in 1..Len(rowsToDelete) : StrictEq(Get(rowsToDelete[i], "id"), v)

(* The relationships of another table that name the table deleted from *)
PointingFields(otherTable, tableName) ==
    {field \in DOMAIN otherTable.relationships :
        otherTable.relationships[field].foreignTable = tableName}

(* The cascade matching the dependent row's own id against the ids *)
CascadeRowsByOwnId(otherTable, tableName, rowsToDelete) ==
    SelectSeq(otherTable.rows,
              LAMBDA row :
                \A field \in PointingFields(otherTable, tableName) :
                    ~ IdsInclude(rowsToDelete, Get(row, "id")))

(* The rows another table keeps: for each such relationship, the rows      *)
(* whose local field is among the deleted ids go                           *)
CascadeRows(otherTable, tableName, rowsToDelete) ==
    SelectSeq(otherTable.rows,
              LAMBDA row :
                \A field \in PointingFields(otherTable, tableName) :
                    ~ IdsInclude(rowsToDelete, Get(row, field)))

(* The rows the table keeps *)
RemainingRows(table, where) ==
    SelectSeq(table.rows, LAMBDA row : ~ Matches(row, where))

Delete(tableName, where, cascade) ==
    LET res == IF currentDb = "" THEN "nodb"
               ELSE IF ~ TableExists(tableName) THEN "notfound" ELSE "ok"
        db == disk[currentDb]
        table == db[tableName]
        rowsToDelete == SelectSeq(table.rows, LAMBDA row : Matches(row, where))
    IN  /\ disk' =
              IF res # "ok" THEN disk
              ELSE [disk EXCEPT ![currentDb] =
                      [t \in TableNames |->
                          IF t = tableName
                          THEN [table EXCEPT !.rows =
                                    PersistRows(RemainingRows(table, where))]
                          ELSE IF /\ cascade
                                  /\ db[t].exists
                                  /\ PointingFields(db[t], tableName) # {}
                          THEN [db[t] EXCEPT !.rows =
                                    PersistRows(CascadeRows(db[t], tableName,
                                                            rowsToDelete))]
                          ELSE db[t]]]
        /\ last' = [NoLast EXCEPT !.op = "delete", !.table = tableName,
                                  !.where = where, !.cascade = cascade,
                                  !.res = res,
                                  !.ret = IF res = "ok" THEN rowsToDelete ELSE <<>>,
                                  !.count = IF res = "ok" THEN Len(rowsToDelete)
                                            ELSE 0,
                                  !.before = IF res = "ok" THEN db ELSE <<>>]
        /\ UNCHANGED <<currentDb, clock, batch, batch2, procs>>

(***************************************************************************)
(* delete with cascade, ended by a write that fails.  fs.readdirSync gives *)
(* the other files in the order of the file system; every relationship     *)
(* that names the table writes its file once; the file of the table        *)
(* itself is written last.  writeFileSync truncates the file before it     *)
(* writes, so the file whose write fails is left as it was (the open       *)
(* failed) or torn (the write failed).                                     *)
(***************************************************************************)
(* A file that JSON.parse no longer reads *)
TornUnit == [exists |-> TRUE, torn |-> TRUE]

Readable(unit) == "torn" \notin DOMAIN unit

(* The orders readdirSync may give the files of S in *)
FileOrders(S) ==
    {order \in [1..Cardinality(S) -> S] :
        \A i, j \in 1..Cardinality(S) : i # j => order[i] # order[j]}

(* The relationships of otherTable that name the table, as Object.entries  *)
(* gives them                                                              *)
PointingSeq(otherTable, tableName) ==
    SelectSeq(FieldSeq, LAMBDA field : field \in PointingFields(otherTable, tableName))

(* The writes of one dependent file: one per relationship, each filtering  *)
(* the rows the one before it left                                         *)
RECURSIVE FieldWrites(_, _, _, _, _)
FieldWrites(otherTable, rows, fields, j, rowsToDelete) ==
    IF j > Len(fields) THEN <<>>
    ELSE LET kept == SelectSeq(rows,
                        LAMBDA row :
                            ~ IdsInclude(rowsToDelete, Get(row, fields[j])))
         IN  <<[file |-> otherTable.name,
                unit |-> [otherTable EXCEPT !.rows = PersistRows(kept)]]>>
             \o FieldWrites(otherTable, kept, fields, j + 1, rowsToDelete)

(* The writes of the cascade, in the order of the files *)
RECURSIVE CascadeWrites(_, _, _, _, _)
CascadeWrites(db, order, i, tableName, rowsToDelete) ==
    IF i > Len(order) THEN <<>>
    ELSE FieldWrites(db[order[i]], db[order[i]].rows,
                     PointingSeq(db[order[i]], tableName), 1, rowsToDelete)
         \o CascadeWrites(db, order, i + 1, tableName, rowsToDelete)

(* A failing write that puts every file back as the call found it *)
AfterWritesRolledBack(db, writes, n) == db

(* The files after the first n of the writes *)
AfterWrites(db, writes, n) ==
    [t \in TableNames |->
        LET mine == {k \in 1..n : writes[k].file = t}
        IN  IF mine = {} THEN db[t]
            ELSE writes[CHOOSE k \in mine : \A m \in mine : m <= k].unit]

DeleteWriteFails(tableName, where, order, failAt, torn) ==
    /\ currentDb # ""
    /\ TableExists(tableName)
    /\ \A t \in TableNames : Readable(disk[currentDb][t])
    /\ LET db == disk[currentDb]
           table == db[tableName]
           rowsToDelete == SelectSeq(table.rows, LAMBDA row : Matches(row, where))
           writes == CascadeWrites(db, order, 1, tableName, rowsToDelete)
                     \o <<[file |-> tableName,
                           unit |-> [table EXCEPT !.rows =
                                        PersistRows(RemainingRows(table, where))]]>>
       IN  /\ order \in FileOrders({t \in TableNames \ {tableName} : db[t].exists})
           /\ failAt \in 1..Len(writes)
           /\ disk' = [disk EXCEPT ![currentDb] =
                         [AfterWrites(db, writes, failAt - 1)
                            EXCEPT ![writes[failAt].file] =
                                IF torn THEN TornUnit ELSE @]]
           /\ last' = [NoLast EXCEPT !.op = "delete", !.table = tableName,
                                     !.where = where, !.cascade = TRUE,
                                     !.res = "write_failed",
                                     !.before = db,
                                     !.written = [k \in 1..(failAt - 1) |->
                                                    writes[k].file],
                                     !.failed = writes[failAt].file]
    /\ UNCHANGED <<currentDb, clock, batch, batch2, procs>>

(***************************************************************************)
(* insertMany: one insert per element, each awaited.  The first insert     *)
(* runs within the call; every later one is a step of its own.  results    *)
(* is handed to the caller when the loop ends; an insert that throws ends  *)
(* the call with that error alone.                                         *)
(***************************************************************************)
(* What the caller receives: the results, or the error of the insert *)
Resolved(results) == [k |-> "rows", rows |-> results]
Rejected(outcome) == [k |-> "error", res |-> outcome.res, errs |-> outcome.errs]

(* The call after the insert of its next element gave the outcome *)
BatchAfter(b, outcome) ==
    IF outcome.res # "ok"
    THEN [active |-> FALSE, table |-> b.table, items |-> b.items,
          results |-> b.results, reported |-> Rejected(outcome)]
    ELSE LET results == Append(b.results, outcome.ret)
         IN  IF Len(results) = Len(b.items)
             THEN [active |-> FALSE, table |-> b.table, items |-> b.items,
                   results |-> results, reported |-> Resolved(results)]
             ELSE [b EXCEPT !.results = results]

(* The bound on the rows of a table that batches fill: a second call       *)
(* brings its own rows                                                     *)
BatchRowLimit ==
    MaxRows + (IF "items" \in DOMAIN batch2 THEN Len(batch2.items) ELSE 0)

(* A loop that takes the elements from the end of rowsData *)
InsertManyStepLastFirst(b) ==
    /\ FreshUuids # {}
    /\ LET rowData == b.items[Len(b.items) - Len(b.results)]
           outcome == InsertOutcome(b.table, rowData,
                                    CHOOSE g \in FreshUuids : TRUE)
       IN  /\ outcome.write => Len(outcome.rows) <= BatchRowLimit
           /\ disk' = IF outcome.write
                      THEN [disk EXCEPT ![currentDb][b.table].rows =
                               PersistRows(outcome.rows)]
                      ELSE disk
           /\ last' = [NoLast EXCEPT !.op = "insert", !.table = b.table,
                                     !.row = rowData, !.res = outcome.res,
                                     !.errs = outcome.errs,
                                     !.ret = IF outcome.res = "ok"
                                             THEN <<outcome.ret>> ELSE <<>>]
           /\ batch' = BatchAfter(b, outcome)
    /\ UNCHANGED <<currentDb, clock, batch2, procs>>

(* One turn of the loop: this.insert(tableName, rowData) *)
InsertManyStep(b) ==
    /\ FreshUuids # {}
    /\ LET rowData == b.items[Len(b.results) + 1]
           outcome == InsertOutcome(b.table, rowData,
                                    CHOOSE g \in FreshUuids : TRUE)
       IN  /\ outcome.write => Len(outcome.rows) <= BatchRowLimit
           /\ disk' = IF outcome.write
                      THEN [disk EXCEPT ![currentDb][b.table].rows =
                               PersistRows(outcome.rows)]
                      ELSE disk
           /\ last' = [NoLast EXCEPT !.op = "insert", !.table = b.table,
                                     !.row = rowData, !.res = outcome.res,
                                     !.errs = outcome.errs,
                                     !.ret = IF outcome.res = "ok"
                                             THEN <<outcome.ret>> ELSE <<>>]
           /\ batch' = BatchAfter(b, outcome)
    /\ UNCHANGED <<currentDb, clock, batch2, procs>>

InsertMany(tableName, rowsData) ==
    /\ ~ batch.active
    /\ IF Len(rowsData) = 0
       THEN /\ batch' = [active |-> FALSE, table |-> tableName,
                         items |-> rowsData, results |-> <<>>,
                         reported |-> Resolved(<<>>)]
            /\ last' = [NoLast EXCEPT !.op = "insertMany", !.table = tableName,
                                      !.res = "ok"]
            /\ UNCHANGED <<currentDb, disk, clock, batch2, procs>>
       ELSE InsertManyStep([active |-> TRUE, table |-> tableName,
                            items |-> rowsData, results |-> <<>>])

(* The loop goes on after the await *)
InsertManyResume ==
    /\ batch.active
    /\ InsertManyStep(batch)

(***************************************************************************)
(* A second insertMany call, made while the first is at its await.  Its    *)
(* turns and the turns of the first come in any order; each turn is one    *)
(* insert, which reads and writes the file without a break.                *)
(***************************************************************************)
(* A call that keeps the rows it inserted and writes them back each turn *)
SecondInsertManyStepOwnRows(b) ==
    /\ FreshUuids # {}
    /\ LET rowData == b.items[Len(b.results) + 1]
           outcome == InsertOutcome(b.table, rowData,
                                    CHOOSE g \in FreshUuids : TRUE)
       IN  /\ outcome.write => Len(outcome.rows) <= BatchRowLimit
           /\ disk' = IF outcome.write
                      THEN [disk EXCEPT ![currentDb][b.table].rows =
                               PersistRows(Append(b.results, outcome.ret))]
                      ELSE disk
           /\ last' = [NoLast EXCEPT !.op = "insert", !.table = b.table,
                                     !.row = rowData, !.res = outcome.res,
                                     !.errs = outcome.errs,
                                     !.ret = IF outcome.res = "ok"
                                             THEN <<outcome.ret>> ELSE <<>>]
           /\ batch2' = BatchAfter(b, outcome)
    /\ UNCHANGED <<currentDb, clock, batch, procs>>

(* One turn of the loop of the second call *)
SecondInsertManyStep(b) ==
    /\ FreshUuids # {}
    /\ LET rowData == b.items[Len(b.results) + 1]
           outcome == InsertOutcome(b.table, rowData,
                                    CHOOSE g \in FreshUuids : TRUE)
       IN  /\ outcome.write => Len(outcome.rows) <= BatchRowLimit
           /\ disk' = IF outcome.write
                      THEN [disk EXCEPT ![currentDb][b.table].rows =
                               PersistRows(outcome.rows)]
                      ELSE disk
           /\ last' = [NoLast EXCEPT !.op = "insert", !.table = b.table,
                                     !.row = rowData, !.res = outcome.res,
                                     !.errs = outcome.errs,
                                     !.ret = IF outcome.res = "ok"
                                             THEN <<outcome.ret>> ELSE <<>>]
           /\ batch2' = BatchAfter(b, outcome)
    /\ UNCHANGED <<currentDb, clock, batch, procs>>

SecondInsertMany(tableName, rowsData) ==
    /\ batch.active
    /\ "items" \notin DOMAIN batch2
    /\ Len(rowsData) > 0
    /\ SecondInsertManyStep([active |-> TRUE, table |-> tableName,
                             items |-> rowsData, results |-> <<>>])

SecondInsertManyResume ==
    /\ batch2.active
    /\ SecondInsertManyStep(batch2)

(***************************************************************************)
(* Other processes that run the engine on the same folder.  Within one     *)
(* process a call reads the file and writes it back without a break        *)
(* (readFileSync, writeFileSync, no await between); between processes the  *)
(* read of one may fall between the read and the write of another.  A      *)
(* call of a process is two steps: ProcLoad reads the file, ProcSave       *)
(* validates against what was read and writes the whole table back.        *)
(***************************************************************************)
InsertCall(tableName, rowData) ==
    [op |-> "insert", table |-> tableName, row |-> rowData]
UpdateCall(tableName, updates, where) ==
    [op |-> "update", table |-> tableName, row |-> updates, where |-> where]

(* What the call gives from the table it read: res, whether it writes, and *)
(* the rows it writes                                                      *)
CallOutcome(call, table) ==
    IF call.op = "insert"
    THEN LET outcome == InsertInto(table, call.row, CHOOSE g \in GenPool : TRUE)
         IN  [res |-> outcome.res, write |-> outcome.write, rows |-> outcome.rows]
    ELSE LET outcome == UpdateRows(table, call.row, call.where)
         IN  [res |-> outcome.res, write |-> outcome.count > 0,
              rows |-> outcome.rows]

(* JSON.parse(fs.readFileSync(tablePath)) *)
ProcLoad(p, call) ==
    /\ procs.at[p].pc = "idle"
    /\ currentDb # ""
    /\ TableExists(call.table)
    /\ procs' = [at |-> [procs.at EXCEPT ![p] =
                            [pc |-> "loaded", call |-> call,
                             table |-> disk[currentDb][call.table]]],
                 log |-> Append(procs.log, [p |-> p, ev |-> "load"])]
    /\ UNCHANGED <<currentDb, disk, clock, last, batch, batch2>>

(* A process that reads the file again just before it writes *)
ProcSaveRereads(p) ==
    /\ procs.at[p].pc = "loaded"
    /\ LET call == procs.at[p].call
           table == disk[currentDb][call.table]
           outcome == CallOutcome(call, table)
       IN  /\ outcome.write => Len(outcome.rows) <= MaxRows + 1
           /\ disk' = IF outcome.write
                      THEN [disk EXCEPT ![currentDb][call.table] =
                               [table EXCEPT !.rows = PersistRows(outcome.rows)]]
                      ELSE disk
           /\ procs' = [at |-> [procs.at EXCEPT ![p] =
                                   [pc |-> "done", call |-> call,
                                    table |-> procs.at[p].table,
                                    res |-> outcome.res]],
                        log |-> Append(procs.log,
                                       [p |-> p,
                                        ev |-> IF outcome.write THEN "save"
                                               ELSE "none"])]
    /\ UNCHANGED <<currentDb, clock, last, batch, batch2>>

(* The rest of the call: validation against the rows read, and             *)
(* fs.writeFileSync(tablePath, JSON.stringify(table))                      *)
ProcSave(p) ==
    /\ procs.at[p].pc = "loaded"
    /\ LET call == procs.at[p].call
           table == procs.at[p].table
           outcome == CallOutcome(call, table)
       IN  /\ outcome.write => Len(outcome.rows) <= MaxRows + 1
           /\ disk' = IF outcome.write
                      THEN [disk EXCEPT ![currentDb][call.table] =
                               [table EXCEPT !.rows = PersistRows(outcome.rows)]]
                      ELSE disk
           /\ procs' = [at |-> [procs.at EXCEPT ![p] =
                                   [pc |-> "done", call |-> call,
                                    table |-> table, res |-> outcome.res]],
                        log |-> Append(procs.log,
                                       [p |-> p,
                                        ev |-> IF outcome.write THEN "save"
                                               ELSE "none"])]
    /\ UNCHANGED <<currentDb, clock, last, batch, batch2>>

(***************************************************************************)
(* addIndex, addColumn, removeColumn and migrate build the path of the     *)
(* file with path.join(currentDbPath, ...) and, migrate apart, read it     *)
(* with fs.readFileSync, without a check of either: with no database       *)
(* selected path.join throws a TypeError (res "bad_path"), and for a file  *)
(* that does not exist readFileSync throws ENOENT (res "enoent").          *)
(***************************************************************************)
OpenResult(tableName) ==
    IF currentDb = "" THEN "bad_path"
    ELSE IF ~ TableExists(tableName) THEN "enoent" ELSE "ok"

(***************************************************************************)
(* addIndex                                                                *)
(***************************************************************************)
(* The property key a value becomes in index[key]: String(key) *)
PropertyKey(v) ==
    CASE v.k = "str" -> v.s
      [] v.k = "num" -> ToString(v.n)
      [] v.k = "null" -> "null"
      [] v.k = "bool" -> IF v.n = 1 THEN "true" ELSE "false"
      [] v.k = "inf" -> "Infinity"
      [] OTHER -> "[object Object]"

(* The keys of the rows that have the field, in row order *)
IndexedKeys(rows, field) ==
    {PropertyKey(rows[i][field]) : i \in {j \in 1..Len(rows) : field \in DOMAIN rows[j]}}

(* index after the forEach: for each key the positions, from 0, of the     *)
(* rows whose field gives that key                                         *)
HashIndex(rows, field) ==
    [key \in IndexedKeys(rows, field) |->
        SelectSeq([i \in 1..Len(rows) |-> i - 1],
                  LAMBDA idx : /\ field \in DOMAIN rows[idx + 1]
                               /\ PropertyKey(rows[idx + 1][field]) = key)]

(* options is the caller's object; type and unique are keys it may have *)
AddIndex(tableName, field, options) ==
    LET opened == OpenResult(tableName)
        table == disk[currentDb][tableName]
        hash == "type" \in DOMAIN options /\ options.type = "hash"
        res == IF opened # "ok" THEN opened
               ELSE IF hash /\ IndexedKeys(table.rows, field) \cap InheritedKeys # {}
               THEN "type_error"
               ELSE "ok"
        entry == [type |-> IF "type" \in DOMAIN options /\ options.type # ""
                           THEN options.type ELSE "value",
                  unique |-> IF "unique" \in DOMAIN options
                             THEN options.unique ELSE FALSE,
                  createdAt |-> Iso(clock)]
        stored == IF hash
                  THEN [data |-> HashIndex(table.rows, field)] @@ entry
                  ELSE entry
    IN  /\ disk' = IF res = "ok"
                   THEN [disk EXCEPT ![currentDb][tableName].indexes =
                            [f \in DOMAIN table.indexes \cup {field} |->
                                IF f = field THEN stored ELSE table.indexes[f]]]
                   ELSE disk
        /\ last' = [NoLast EXCEPT !.op = "addIndex", !.table = tableName,
                                  !.field = field, !.options = options,
                                  !.res = res]
        /\ UNCHANGED <<currentDb, clock, batch, batch2, procs>>

(***************************************************************************)
(* addColumn                                                               *)
(***************************************************************************)
(* table.columns[columnName], as a truth value *)
HasColumn(columns, columnName) ==
    columnName \in DOMAIN columns \cup InheritedKeys

(* definition.default, or null *)
ColumnDefault(definition) ==
    IF definition.form = "object" /\ Has(definition.def, "default")
    THEN definition.def.default ELSE Null

AddColumn(tableName, columnName, definition) ==
    LET res == IF OpenResult(tableName) # "ok" THEN OpenResult(tableName)
               ELSE IF HasColumn(disk[currentDb][tableName].columns, columnName)
               THEN "exists"
               ELSE "ok"
        table == disk[currentDb][tableName]
        columns == [c \in DOMAIN table.columns \cup {columnName} |->
                      IF c = columnName
                      THEN IF definition.form = "string"
                           THEN [type |-> definition.type] ELSE definition.def
                      ELSE table.columns[c]]
        rows == [i \in 1..Len(table.rows) |->
                    Set(table.rows[i], columnName, ColumnDefault(definition))]
    IN  /\ disk' = IF res = "ok"
                   THEN [disk EXCEPT ![currentDb][tableName] =
                            [table EXCEPT !.columns = columns,
                                          !.rows = PersistRows(rows)]]
                   ELSE disk
        /\ last' = [NoLast EXCEPT !.op = "addColumn", !.table = tableName,
                                  !.field = columnName,
                                  !.definition = definition, !.res = res]
        /\ UNCHANGED <<currentDb, clock, batch, batch2, procs>>

(***************************************************************************)
(* removeColumn                                                            *)
(***************************************************************************)
(* delete newRow[columnName] *)
Unset(row, f) == [g \in DOMAIN row \ {f} |-> row[g]]

RemoveColumn(tableName, columnName) ==
    LET res == IF OpenResult(tableName) # "ok" THEN OpenResult(tableName)
               ELSE IF ~ HasColumn(disk[currentDb][tableName].columns, columnName)
               THEN "no_column"
               ELSE "ok"
        table == disk[currentDb][tableName]
        columns == [c \in DOMAIN table.columns \ {columnName} |-> table.columns[c]]
        rows == [i \in 1..Len(table.rows) |-> Unset(table.rows[i], columnName)]
    IN  /\ disk' = IF res = "ok"
                   THEN [disk EXCEPT ![currentDb][tableName] =
                            [table EXCEPT !.columns = columns,
                                          !.rows = PersistRows(rows)]]
                   ELSE disk
        /\ last' = [NoLast EXCEPT !.op = "removeColumn", !.table = tableName,
                                  !.field = columnName, !.res = res]
        /\ UNCHANGED <<currentDb, clock, batch, batch2, procs>>

(***************************************************************************)
(* migrate.  migrationFn is the caller's function; the model names a few   *)
(***************************************************************************)
MigrationFns == {"keep", "setSecret", "throw"}

(* Functions that write on the row object they are handed:                 *)
(*   setTitle      row => { row.title = 'z'; return row }                   *)
(*   ageThenThrow  row => { row.age = 7; throw new Error() }                *)
WritingMigrationFns == {"setTitle", "ageThenThrow"}

(* Functions that store a tagged object of their own making:               *)
(*   otherKeyCipher  row => row.name === 'a'                                *)
(*                       ? {...row, secret: <7 enciphered with 'k2'>} : row *)
(*   corruptCipher   row => row.name === 'b'                                *)
(*                       ? {...row, secret: {encrypted: true, data: 'zz'}}  *)
(*                       : row                                              *)
CipherMigrationFns == {"otherKeyCipher", "corruptCipher"}

(* A function that returns the row without its id:                         *)
(*   withoutId  ({id, ...rest}) => rest                                     *)
IdMigrationFns == {"withoutId"}

(* migrationFn(row): threw tells whether it threw, row is what the map     *)
(* callback returns: the function's result, or from the catch the row      *)
(* object as the function left it                                          *)
ApplyMigration(migrationFn, row) ==
    CASE migrationFn = "keep" -> [threw |-> FALSE, row |-> row]
      [] migrationFn = "setSecret" ->
            [threw |-> FALSE, row |-> Set(row, "secret", Num(5))]
      [] migrationFn = "throw" -> [threw |-> TRUE, row |-> row]
      [] migrationFn = "setTitle" ->
            [threw |-> FALSE, row |-> Set(row, "title", Str("z"))]
      [] migrationFn = "ageThenThrow" ->
            [threw |-> TRUE, row |-> Set(row, "age", Num(7))]
      [] migrationFn = "withoutId" ->
            [threw |-> FALSE, row |-> Unset(row, "id")]
      [] migrationFn = "otherKeyCipher" ->
            [threw |-> FALSE,
             row |-> IF Get(row, "name") = Str("a")
                     THEN Set(row, "secret", EncObj("k2", JsonText(Num(7))))
                     ELSE row]
      [] migrationFn = "corruptCipher" ->
            [threw |-> FALSE,
             row |-> IF Get(row, "name") = Str("b")
                     THEN Set(row, "secret", EncObj("k1", Garbage))
                     ELSE row]

Migrate(tableName, migrationFn) ==
    LET res == IF currentDb = "" THEN "bad_path"
               ELSE IF ~ TableExists(tableName) THEN "notfound" ELSE "ok"
        table == disk[currentDb][tableName]
        rows == [i \in 1..Len(table.rows) |->
                    ApplyMigration(migrationFn, table.rows[i]).row]
    IN  /\ disk' = IF res = "ok"
                   THEN [disk EXCEPT ![currentDb][tableName].rows =
                            PersistRows(rows)]
                   ELSE disk
        /\ last' = [NoLast EXCEPT !.op = "migrate", !.table = tableName,
                                  !.fn = migrationFn, !.res = res]
        /\ UNCHANGED <<currentDb, clock, batch, batch2, procs>>

(***************************************************************************)
(* The first specification: one table, users, with and without an id       *)
(* column of the caller's and with and without timestamps                  *)
(***************************************************************************)
(* name required, email unique, age an int of at least 0, secret a float *)
UsersColumns ==
    [name |-> ColObj([type |-> "text", required |-> TRUE]),
     email |-> ColObj([type |-> "text", unique |-> TRUE]),
     age |-> ColObj([type |-> "int", min |-> Num(0)]),
     secret |-> ColName("float")]

(* The same, with an id column the caller declares, as 'uuid' *)
UsersColumnsOwnId == [id |-> ColName("uuid")] @@ UsersColumns

UsersOptions == {<<>>, [timestamps |-> Bool(FALSE)]}

UserRows ==
    {[id |-> Str("u1"), name |-> Str("a"), email |-> Str("e1"), age |-> Num(5)],
     [id |-> Str("u2"), name |-> Str("a"), email |-> Str("e1")],
     [id |-> Str("u1"), name |-> Str("b"), email |-> Str("e1")],
     [name |-> Str("a"), email |-> Str("e1"), age |-> Num(5)],
     [name |-> Str("a"), age |-> Num(-1)],
     [id |-> Str("u2"), email |-> Str("e2")],
     [id |-> Str("u2"), name |-> Null, email |-> Str("e2")],
     [id |-> Str("u2"), name |-> Str("a"), email |-> Str("e2")],
     [id |-> Str("u2"), name |-> Str("a"), title |-> Str("z")]}

UserPatches ==
    {[email |-> Str("e1")], [age |-> Num(7)], [age |-> Num(-1)]}

UserWheres == {<<>>, [id |-> Str("u1")], [id |-> Str("u2")]}

Next ==
    \/ Tick
    \/ \E name \in {Str("A"), Str("")} : Use(name)
    \/ \E columns \in {UsersColumns, UsersColumnsOwnId}, options \in UsersOptions :
            CreateTable("users", columns, <<>>, options)
    \/ \E row \in UserRows : Insert("users", row)
    \/ \E where \in UserWheres : Select("users", where)
    \/ \E updates \in UserPatches, where \in UserWheres :
            Update("users", updates, where)
    \/ \E where \in UserWheres, cascade \in BOOLEAN : Delete("users", where, cascade)

Spec == Init /\ [][Next]_vars

(***************************************************************************)
(* The second specification: users with the field secret encrypted         *)
(***************************************************************************)
SecretEncryption == [key |-> "k1", fields |-> {"secret"}]

EncOptions ==
    {[encryption |-> SecretEncryption],
     [encryption |-> SecretEncryption, timestamps |-> Bool(FALSE)]}

EncRows ==
    {[id |-> Str("u1"), name |-> Str("a"), secret |-> Num(7)],
     [id |-> Str("u2"), name |-> Str("a"), secret |-> Str("5")],
     [id |-> Str("u2"), name |-> Str("a"), secret |-> Inf],
     [id |-> Str("u2"), name |-> Str("a"), secret |-> Str("z")],
     [id |-> Str("u1"), name |-> Str("b")]}

EncPatches == {[secret |-> Num(5)], [name |-> Str("b")]}

EncWheres == {<<>>, [id |-> Str("u1")], [secret |-> Num(7)]}

NextEnc ==
    \/ Tick
    \/ Use(Str("A"))
    \/ \E options \in EncOptions : CreateTable("users", UsersColumns, <<>>, options)
    \/ \E row \in EncRows : Insert("users", row)
    \/ \E where \in EncWheres : Select("users", where)
    \/ \E updates \in EncPatches, where \in EncWheres :
            Update("users", updates, where)
    \/ \E where \in EncWheres : Delete("users", where, FALSE)

SpecEnc == Init /\ [][NextEnc]_vars

(***************************************************************************)
(* The third specification: users, and posts with user_id -> users.id      *)
(* The clock stands still: no step of it reads the time but to stamp rows  *)
(***************************************************************************)
PostsColumns ==
    [title |-> ColObj([type |-> "text", required |-> TRUE]),
     user_id |-> ColName("uuid")]

PostsRelationships == [user_id |-> [foreignTable |-> "users", foreignKey |-> "id"]]

RelOptions == {<<>>, [timestamps |-> Bool(FALSE)]}

RelUserRows ==
    {[id |-> Str("u1"), name |-> Str("a")],
     [id |-> Str("u2"), name |-> Str("b")]}

PostRows ==
    {[id |-> Str("u1"), title |-> Str("t"), user_id |-> Str("u1")],
     [id |-> Str("u2"), title |-> Str("t"), user_id |-> Str("u2")],
     [id |-> Str("u3"), title |-> Str("t"), user_id |-> Str("u1")],
     [id |-> Str("u3"), title |-> Str("t"), user_id |-> Str("u3")],
     [id |-> Str("u3"), title |-> Str("t")],
     [title |-> Str("t"), user_id |-> Str("u2")]}

PostPatches == {[user_id |-> Str("u3")], [user_id |-> Str("u2")]}

RelWheres == {<<>>, [id |-> Str("u1")]}

NextRel ==
    \/ Use(Str("A"))
    \/ CreateTable("users", UsersColumns, <<>>, [timestamps |-> Bool(FALSE)])
    \/ \E options \in RelOptions :
            CreateTable("posts", PostsColumns, PostsRelationships, options)
    \/ \E row \in RelUserRows : Insert("users", row)
    \/ \E row \in PostRows : Insert("posts", row)
    \/ \E updates \in PostPatches, where \in RelWheres :
            Update("posts", updates, where)
    \/ \E where \in RelWheres, cascade \in BOOLEAN : Delete("users", where, cascade)

SpecRel == Init /\ [][NextRel]_vars

(***************************************************************************)
(* The fourth specification: select and its options, over tables that      *)
(* earlier inserts left: users with the field secret encrypted, and posts  *)
(* with user_id -> users.id (some posts may point at no user, after a      *)
(* delete without cascade)                                                 *)
(***************************************************************************)
MaxSelRows == 3

SelUsersOptions == [encryption |-> SecretEncryption, timestamps |-> Bool(FALSE)]

SelUserRows ==
    {[id |-> Str("u1"), name |-> Str("a"), email |-> Str("e1"), age |-> Num(5),
      secret |-> Num(7)],
     [id |-> Str("u2"), name |-> Str("ab"), email |-> Str("e2"), age |-> Num(3)],
     [id |-> Str("u3"), name |-> Str("b"), age |-> Num(5)]}

SelPostRows ==
    <<[id |-> Str("g1"), title |-> Str("t"), user_id |-> Str("u1")],
      [id |-> Str("g2"), title |-> Str("t"), user_id |-> Str("u1")],
      [id |-> Str("g3"), title |-> Str("t"), user_id |-> Str("u2")]>>

(* The sequences of at most n rows of S, no row twice *)
RowSeqs(S, n) ==
    UNION {{q \in [1..m -> S] : \A i \in 1..m, j \in 1..m : i # j => q[i] # q[j]}
           : m \in 0..n}

(* The users file after inserts of the rows, in that order *)
SelUsersUnit(rows) ==
    LET table == NewTable("users", UsersColumns, <<>>, SelUsersOptions)
    IN  [table EXCEPT !.rows =
            PersistRows([i \in 1..Len(rows) |-> EncryptRow(table, rows[i])])]

(* The posts file holding the first n rows, or no file for n = -1 *)
SelPostsUnit(n) ==
    IF n < 0 THEN NoUnit
    ELSE [NewTable("posts", PostsColumns, PostsRelationships,
                   [timestamps |-> Bool(FALSE)])
            EXCEPT !.rows = PersistRows(SubSeq(SelPostRows, 1, n))]

InitSel ==
    /\ currentDb = "A"
    /\ clock = 0
    /\ last = NoLast
    /\ batch = NoBatch
    /\ batch2 = NoBatch
    /\ procs = NoProcs
    /\ \E rows \in RowSeqs(SelUserRows, MaxSelRows), n \in -1..Len(SelPostRows) :
          disk = [d \in Databases |->
                    IF d = "A"
                    THEN [t \in TableNames |->
                            IF t = "users" THEN SelUsersUnit(rows)
                            ELSE IF t = "posts" THEN SelPostsUnit(n)
                            ELSE NoUnit]
                    ELSE [t \in TableNames |-> NoUnit]]

SelWheres ==
    {[age |-> Num(5)],
     [secret |-> Num(7)],
     [email |-> Undef],
     [age |-> Ops("$eq" :> Num(5)), name |-> Str("a")],
     [age |-> Ops("$ne" :> Num(5))],
     [age |-> Ops("$gt" :> Num(3))],
     [age |-> Ops(("$gte" :> Num(4)) @@ ("$lte" :> Num(5)))],
     [age |-> Ops("$lt" :> Num(5))],
     [secret |-> Ops("$lt" :> Num(9))],
     [age |-> Ops("$in" :> Arr(<<Num(3), Num(4)>>))],
     [age |-> Ops("$nin" :> Arr(<<Num(3)>>))],
     [name |-> Ops("$like" :> Str("a"))],
     [email |-> Ops("$regex" :> Str("^e"))],
     [age |-> Ops(<<>>)]}

UsersJoinPosts == [table |-> "posts", on |-> [local |-> "id", foreign |-> "user_id"]]
PostsJoinUsers ==
    [table |-> "users", on |-> [local |-> "user_id", foreign |-> "id"],
     as |-> "author"]

(* The parts an options object is put together from; <<>> leaves the part out *)
WhereParts == {<<>>, [where |-> [posts |-> Null]]}
JoinParts ==
    {<<>>, [join |-> <<UsersJoinPosts>>],
     [join |-> <<[type |-> "inner"] @@ UsersJoinPosts>>]}
OrderParts ==
    {[orderBy |-> [field |-> "age"]],
     [orderBy |-> [field |-> "age", direction |-> "desc"]],
     [orderBy |-> [field |-> "posts"]]}
PageParts ==
    {<<>>, [limit |-> Num(1)], [limit |-> Num(2), offset |-> Num(1)],
     [offset |-> Num(2)]}
FieldParts == {<<>>, [fields |-> {"id", "name", "posts"}]}

SelOptions ==
    {[where |-> w] : w \in SelWheres}
    \cup {w @@ j @@ o @@ g @@ f :
            w \in WhereParts, j \in JoinParts, o \in OrderParts, g \in PageParts,
            f \in FieldParts}

PostsOptions ==
    {[join |-> <<PostsJoinUsers>>],
     [join |-> <<[type |-> "inner"] @@ PostsJoinUsers>>,
      fields |-> {"id", "author"}]}

NextSel ==
    \/ \E options \in SelOptions : SelectQuery("users", options)
    \/ \E options \in PostsOptions : SelectQuery("posts", options)

SpecSel == InitSel /\ [][NextSel]_vars

(***************************************************************************)
(* The fifth specification: users with encrypted fields, under insert,     *)
(* insertMany, update, addColumn and migrate                               *)
(***************************************************************************)
MaxBatch == 2

(* The batches of at most n rows of S *)
Batches(S, n) == UNION {[1..m -> S] : m \in 0..n}

AtRestOptions ==
    {[encryption |-> [key |-> "k1", fields |-> {"secret", "note"}],
      timestamps |-> Bool(FALSE)],
     [encryption |-> [key |-> "k1", fields |-> {"secret", "note"}]]}

AtRestRows ==
    {[id |-> Str("u1"), name |-> Str("a"), secret |-> Num(7)],
     [id |-> Str("u2"), name |-> Str("b")]}

NextAtRest ==
    \/ Use(Str("A"))
    \/ \E options \in AtRestOptions :
            CreateTable("users", UsersColumns, <<>>, options)
    \/ \E row \in AtRestRows : Insert("users", row)
    \/ \E rowsData \in Batches(AtRestRows, MaxBatch) : InsertMany("users", rowsData)
    \/ InsertManyResume
    \/ \E updates \in EncPatches : Update("users", updates, [id |-> Str("u2")])
    \/ \E definition \in {ColName("text"),
                          ColObj([type |-> "text", default |-> Str("x")])} :
            AddColumn("users", "note", definition)
    \/ \E migrationFn \in MigrationFns : Migrate("users", migrationFn)

SpecAtRest == Init /\ [][NextAtRest]_vars

(***************************************************************************)
(* The sixth specification: update and delete, next to select, on the      *)
(* users table of the fourth                                               *)
(***************************************************************************)
MatchWheres ==
    {<<>>, [id |-> Str("u2")], [age |-> Num(5)], [secret |-> Num(7)],
     [age |-> Ops("$lt" :> Num(5))]}

MatchPatches == {[age |-> Num(7)], [email |-> Str("e2")], [age |-> Num(-1)]}

NextMatch ==
    \/ \E where \in MatchWheres : SelectQuery("users", [where |-> where])
    \/ \E updates \in MatchPatches, where \in MatchWheres :
            Update("users", updates, where)
    \/ \E where \in MatchWheres : Delete("users", where, FALSE)

SpecMatch == InitSel /\ [][NextMatch]_vars

(***************************************************************************)
(* The seventh specification: batches next to single inserts               *)
(***************************************************************************)
BatchRows ==
    {[id |-> Str("u1"), name |-> Str("a"), email |-> Str("e1")],
     [id |-> Str("u2"), name |-> Str("b"), email |-> Str("e1")],
     [id |-> Str("u2"), email |-> Str("e2")]}

NextBatch ==
    \/ Use(Str("A"))
    \/ CreateTable("users", UsersColumns, <<>>, [timestamps |-> Bool(FALSE)])
    \/ \E row \in BatchRows : Insert("users", row)
    \/ \E rowsData \in Batches(BatchRows, MaxBatch) : InsertMany("users", rowsData)
    \/ InsertManyResume

SpecBatch == Init /\ [][NextBatch]_vars

(***************************************************************************)
(* The eighth specification: users with two dependent tables, posts and    *)
(* comments, and deletes with cascade that a failing write may end         *)
(***************************************************************************)
MaxDepRows == 2

DependentRows ==
    {[id |-> Str("g1"), title |-> Str("t"), user_id |-> Str("u1")],
     [id |-> Str("g2"), title |-> Str("t"), user_id |-> Str("u2")]}

(* The file of a table after inserts of the rows, in that order *)
CascadeUnit(tableName, columns, relationships, rows) ==
    [NewTable(tableName, columns, relationships, [timestamps |-> Bool(FALSE)])
        EXCEPT !.rows = PersistRows(rows)]

InitCascade ==
    /\ currentDb = "A"
    /\ clock = 0
    /\ last = NoLast
    /\ batch = NoBatch
    /\ batch2 = NoBatch
    /\ procs = NoProcs
    /\ \E users \in RowSeqs(RelUserRows, MaxRows),
          posts \in RowSeqs(DependentRows, MaxDepRows),
          comments \in RowSeqs(DependentRows, MaxDepRows),
          withComments \in BOOLEAN :
          disk = [d \in Databases |->
                    IF d = "A"
                    THEN [t \in TableNames |->
                            CASE t = "users" ->
                                    CascadeUnit(t, UsersColumns, <<>>, users)
                              [] t = "posts" ->
                                    CascadeUnit(t, PostsColumns,
                                                PostsRelationships, posts)
                              [] OTHER ->
                                    IF withComments
                                    THEN CascadeUnit(t, PostsColumns,
                                                     PostsRelationships, comments)
                                    ELSE NoUnit]
                    ELSE [t \in TableNames |-> NoUnit]]

CascadeWheres == {<<>>, [id |-> Str("u1")], [id |-> Str("u2")]}

NextCascade ==
    \/ \E where \in CascadeWheres :
            /\ \A t \in TableNames : Readable(disk[currentDb][t])
            /\ Delete("users", where, TRUE)
    \/ \E where \in CascadeWheres,
          order \in FileOrders({"posts", "comments"}) \cup FileOrders({"posts"}),
          failAt \in 1..3, torn \in BOOLEAN :
            DeleteWriteFails("users", where, order, failAt, torn)

SpecCascade == InitCascade /\ [][NextCascade]_vars

(***************************************************************************)
(* The ninth specification: two processes, one call each, on users         *)
(***************************************************************************)
RaceRows ==
    {[id |-> Str("u1"), name |-> Str("a"), email |-> Str("e1")],
     [id |-> Str("u2"), name |-> Str("b"), email |-> Str("e2")],
     [id |-> Str("u3"), name |-> Str("c"), email |-> Str("e1")]}

RaceCalls ==
    {InsertCall("users", row) : row \in RaceRows}
    \cup {UpdateCall("users", [age |-> Num(7)], <<>>),
          UpdateCall("users", [name |-> Str("z")], [id |-> Str("u1")])}

InitRace ==
    /\ currentDb = "A"
    /\ clock = 0
    /\ last = NoLast
    /\ batch = NoBatch
    /\ batch2 = NoBatch
    /\ procs = NoProcs
    /\ \E users \in RowSeqs(RaceRows, MaxRows - 1) :
          disk = [d \in Databases |->
                    IF d = "A"
                    THEN [t \in TableNames |->
                            IF t = "users"
                            THEN CascadeUnit(t, UsersColumns, <<>>, users)
                            ELSE NoUnit]
                    ELSE [t \in TableNames |-> NoUnit]]

NextRace ==
    \/ \E p \in ProcIds, call \in RaceCalls : ProcLoad(p, call)
    \/ \E p \in ProcIds : ProcSave(p)

SpecRace == InitRace /\ [][NextRace]_vars

(***************************************************************************)
(* The tenth specification: two insertMany calls on users, the second      *)
(* made before the first has ended                                         *)
(***************************************************************************)
FirstBatchRows ==
    {[id |-> Str("u1"), name |-> Str("a"), email |-> Str("e1")],
     [id |-> Str("u2"), name |-> Str("b"), email |-> Str("e2")],
     [id |-> Str("u2"), email |-> Str("e2")]}

SecondBatchRows ==
    {[id |-> Str("u3"), name |-> Str("c"), email |-> Str("e1")],
     [id |-> Str("g1"), name |-> Str("d")]}

InitTwoBatches ==
    /\ currentDb = "A"
    /\ clock = 0
    /\ last = NoLast
    /\ batch = NoBatch
    /\ batch2 = NoBatch
    /\ procs = NoProcs
    /\ disk = [d \in Databases |->
                 IF d = "A"
                 THEN [t \in TableNames |->
                         IF t = "users"
                         THEN CascadeUnit(t, UsersColumns, <<>>, <<>>)
                         ELSE NoUnit]
                 ELSE [t \in TableNames |-> NoUnit]]

NextTwoBatches ==
    \/ \E rowsData \in Batches(FirstBatchRows, MaxBatch) :
            /\ "items" \notin DOMAIN batch
            /\ InsertMany("users", rowsData)
    \/ InsertManyResume
    \/ \E rowsData \in Batches(SecondBatchRows, MaxBatch) :
            SecondInsertMany("users", rowsData)
    \/ SecondInsertManyResume

SpecTwoBatches == InitTwoBatches /\ [][NextTwoBatches]_vars

(***************************************************************************)
(* The eleventh specification: every operation of the engine on users,     *)
(* before and after use and createTable                                    *)
(***************************************************************************)
SchemaRow == [id |-> Str("u1"), name |-> Str("a"), age |-> Num(5)]

NoteDefinition == ColObj([type |-> "text", default |-> Str("x")])

NextSchema ==
    \/ Use(Str("A"))
    \/ CreateTable("users", UsersColumns, <<>>, [timestamps |-> Bool(FALSE)])
    \/ Insert("users", SchemaRow)
    \/ \E rowsData \in {<<>>, <<SchemaRow>>} : InsertMany("users", rowsData)
    \/ SelectQuery("users", <<>>)
    \/ Update("users", [age |-> Num(7)], [id |-> Str("u1")])
    \/ Delete("users", [id |-> Str("u1")], FALSE)
    \/ \E options \in {<<>>, [type |-> "hash"]} : AddIndex("users", "age", options)
    \/ \E columnName \in {"note", "age"} :
            AddColumn("users", columnName, NoteDefinition)
    \/ \E columnName \in {"note", "age", "toString"} :
            RemoveColumn("users", columnName)
    \/ \E migrationFn \in {"keep", "throw"} : Migrate("users", migrationFn)

SpecSchema == Init /\ [][NextSchema]_vars

(***************************************************************************)
(* The twelfth specification: migrations, with the calls that change the   *)
(* rows and the columns of users                                           *)
(***************************************************************************)
MigrateRows ==
    {[id |-> Str("u1"), name |-> Str("a"), age |-> Num(5)],
     [id |-> Str("u2"), name |-> Str("b")]}

InitMigrate ==
    /\ currentDb = "A"
    /\ clock = 0
    /\ last = NoLast
    /\ batch = NoBatch
    /\ batch2 = NoBatch
    /\ procs = NoProcs
    /\ \E users \in RowSeqs(MigrateRows, MaxRows) :
          disk = [d \in Databases |->
                    IF d = "A"
                    THEN [t \in TableNames |->
                            IF t = "users"
                            THEN CascadeUnit(t, UsersColumns, <<>>, users)
                            ELSE NoUnit]
                    ELSE [t \in TableNames |-> NoUnit]]

NextMigrate ==
    \/ \E migrationFn \in MigrationFns \cup WritingMigrationFns :
            Migrate("users", migrationFn)
    \/ \E row \in MigrateRows : Insert("users", row)
    \/ Update("users", [age |-> Num(3)], [id |-> Str("u2")])
    \/ AddColumn("users", "note", NoteDefinition)
    \/ \E columnName \in {"note", "age"} : RemoveColumn("users", columnName)

SpecMigrate == InitMigrate /\ [][NextMigrate]_vars

(***************************************************************************)
(* The thirteenth specification: indexes on users, and the writes that     *)
(* follow them                                                             *)
(***************************************************************************)
IndexRows ==
    {[id |-> Str("u1"), name |-> Str("a"), age |-> Num(5)],
     [id |-> Str("u2"), name |-> Str("b"), age |-> Str("5")],
     [id |-> Str("u3"), name |-> Str("constructor"), age |-> Num(5)]}

IndexOptions == {<<>>, [type |-> "hash", unique |-> TRUE]}

InitIndex ==
    /\ currentDb = "A"
    /\ clock = 0
    /\ last = NoLast
    /\ batch = NoBatch
    /\ batch2 = NoBatch
    /\ procs = NoProcs
    /\ \E users \in RowSeqs(IndexRows, MaxRows) :
          disk = [d \in Databases |->
                    IF d = "A"
                    THEN [t \in TableNames |->
                            IF t = "users"
                            THEN CascadeUnit(t, UsersColumns, <<>>, users)
                            ELSE NoUnit]
                    ELSE [t \in TableNames |-> NoUnit]]

NextIndex ==
    \/ \E field \in {"age", "name"}, options \in IndexOptions :
            AddIndex("users", field, options)
    \/ \E row \in IndexRows : Insert("users", row)
    \/ Update("users", [age |-> Num(7)], [id |-> Str("u1")])
    \/ Delete("users", [id |-> Str("u2")], FALSE)
    \/ Migrate("users", "setSecret")
    \/ SelectQuery("users", [where |-> [age |-> Num(5)]])

SpecIndex == InitIndex /\ [][NextIndex]_vars

(***************************************************************************)
(* The fourteenth specification: users with secret encrypted under k1,     *)
(* and migrations that store a cipher text of another key, a corrupt one,  *)
(* or a plain value                                                        *)
(***************************************************************************)
KeysOptions == [encryption |-> SecretEncryption, timestamps |-> Bool(FALSE)]

KeysRows ==
    {[id |-> Str("u1"), name |-> Str("a"), secret |-> Num(7)],
     [id |-> Str("u2"), name |-> Str("b"), secret |-> Num(3)],
     [id |-> Str("u2"), name |-> Str("a")]}

KeysSelects == {<<>>, [where |-> [name |-> Str("a")]]}

NextKeys ==
    \/ Use(Str("A"))
    \/ CreateTable("users", UsersColumns, <<>>, KeysOptions)
    \/ \E row \in KeysRows : Insert("users", row)
    \/ \E migrationFn \in CipherMigrationFns \cup {"setSecret"} :
            Migrate("users", migrationFn)
    \/ Update("users", [name |-> Str("a")], [id |-> Str("u2")])
    \/ \E options \in KeysSelects : SelectQuery("users", options)

SpecKeys == Init /\ [][NextKeys]_vars

(***************************************************************************)
(* The fifteenth specification: a table with two unique columns, one with  *)
(* a default, with and without encryption of the other                     *)
(***************************************************************************)
UniqueUsersColumns ==
    [name |-> ColName("text"),
     email |-> ColObj([type |-> "text", unique |-> TRUE]),
     code |-> ColObj([type |-> "text", unique |-> TRUE, default |-> Str("c0")])]

UniqueOptions ==
    {[timestamps |-> Bool(FALSE)],
     [timestamps |-> Bool(FALSE),
      encryption |-> [key |-> "k1", fields |-> {"email"}]]}

UniqueRows ==
    {[id |-> Str("u1"), email |-> Str("e1"), code |-> Str("c1")],
     [id |-> Str("u2"), email |-> Str("e1"), code |-> Str("c2")],
     [id |-> Str("u2"), email |-> Str("e2"), code |-> Str("c2")],
     [id |-> Str("u1"), email |-> Str("e1")],
     [id |-> Str("u2"), email |-> Str("e2")]}

UniquePatches == {[email |-> Str("e3")], [code |-> Str("c1")]}

UniqueWheres == {<<>>, [id |-> Str("u2")]}

NextUnique ==
    \/ Use(Str("A"))
    \/ \E options \in UniqueOptions :
            CreateTable("users", UniqueUsersColumns, <<>>, options)
    \/ \E row \in UniqueRows : Insert("users", row)
    \/ \E rowsData \in Batches({row \in UniqueRows : "code" \notin DOMAIN row},
                                 MaxBatch) :
            InsertMany("users", rowsData)
    \/ InsertManyResume
    \/ \E updates \in UniquePatches, where \in UniqueWheres :
            Update("users", updates, where)

SpecUnique == Init /\ [][NextUnique]_vars

(***************************************************************************)
(* The sixteenth specification: references in a chain (comments to posts   *)
(* to users), from users to users, and from posts to a users column other  *)
(* than id                                                                 *)
(***************************************************************************)
ChainUsersColumns == [name |-> ColName("text"), manager_id |-> ColName("uuid")]

ChainUsersRelationships ==
    {<<>>, [manager_id |-> [foreignTable |-> "users", foreignKey |-> "id"]]}

ChainPostsColumns == [user_id |-> ColName("uuid"), author |-> ColName("text")]

ChainPostsRelationships ==
    {[user_id |-> [foreignTable |-> "users", foreignKey |-> "id"]],
     [author |-> [foreignTable |-> "users", foreignKey |-> "name"]]}

ChainCommentsColumns == [post_id |-> ColName("uuid")]

ChainCommentsRelationships ==
    [post_id |-> [foreignTable |-> "posts", foreignKey |-> "id"]]

ChainOptions == [timestamps |-> Bool(FALSE)]

ChainUserRows ==
    {[id |-> Str("u1"), name |-> Str("a")],
     [id |-> Str("u2"), name |-> Str("b"), manager_id |-> Str("u1")]}

ChainPostRows ==
    {[id |-> Str("u3"), user_id |-> Str("u1")],
     [id |-> Str("u3"), author |-> Str("a")]}

ChainCommentRows == {[id |-> Str("u2"), post_id |-> Str("u3")]}

NextChain ==
    \/ Use(Str("A"))
    \/ \E relationships \in ChainUsersRelationships :
            CreateTable("users", ChainUsersColumns, relationships, ChainOptions)
    \/ \E relationships \in ChainPostsRelationships :
            CreateTable("posts", ChainPostsColumns, relationships, ChainOptions)
    \/ CreateTable("comments", ChainCommentsColumns, ChainCommentsRelationships,
                   ChainOptions)
    \/ \E row \in ChainUserRows : Insert("users", row)
    \/ \E row \in ChainPostRows : Insert("posts", row)
    \/ \E row \in ChainCommentRows : Insert("comments", row)
    \/ \E where \in {<<>>, [id |-> Str("u1")]} : Delete("users", where, TRUE)
    \/ Delete("posts", <<>>, TRUE)

SpecChain == Init /\ [][NextChain]_vars

(***************************************************************************)
(* The seventeenth specification: the ids of users, whose id column is the *)
(* one createTable adds                                                    *)
(***************************************************************************)
IdRows ==
    {[id |-> Str("u1"), name |-> Str("a")],
     [id |-> Str("u2"), name |-> Str("b")],
     [id |-> Str("u1"), name |-> Str("b"), age |-> Num(5)],
     [name |-> Str("a")]}

IdPatches == {[name |-> Str("a")], [id |-> Str("u1")]}

NextIds ==
    \/ Use(Str("A"))
    \/ CreateTable("users", UsersColumns, <<>>, [timestamps |-> Bool(FALSE)])
    \/ \E row \in IdRows : Insert("users", row)
    \/ \E updates \in IdPatches : Update("users", updates, [id |-> Str("u2")])
    \/ \E columnName \in {"age", "id"} : RemoveColumn("users", columnName)
    \/ \E migrationFn \in IdMigrationFns \cup {"keep", "setSecret"} :
            Migrate("users", migrationFn)

SpecIds == Init /\ [][NextIds]_vars

(***************************************************************************)
(* The eighteenth specification: a cascading delete on users that stops at *)
(* any of its writes, with posts referencing users by id or by name        *)
(***************************************************************************)
CrashPostRows ==
    {[id |-> Str("g1"), user_id |-> Str("u1"), author |-> Str("a")],
     [id |-> Str("g2"), user_id |-> Str("u2"), author |-> Str("b")]}

InitCrash ==
    /\ currentDb = "A"
    /\ clock = 0
    /\ last = NoLast
    /\ batch = NoBatch
    /\ batch2 = NoBatch
    /\ procs = NoProcs
    /\ \E users \in RowSeqs(RelUserRows, MaxRows),
          posts \in RowSeqs(CrashPostRows, MaxDepRows),
          relationships \in ChainPostsRelationships :
          disk = [d \in Databases |->
                    IF d = "A"
                    THEN [t \in TableNames |->
                            CASE t = "users" ->
                                    CascadeUnit(t, UsersColumns, <<>>, users)
                              [] t = "posts" ->
                                    CascadeUnit(t, ChainPostsColumns,
                                                relationships, posts)
                              [] OTHER -> NoUnit]
                    ELSE [t \in TableNames |-> NoUnit]]

NextCrash ==
    \/ \E where \in CascadeWheres :
            /\ \A t \in TableNames : Readable(disk[currentDb][t])
            /\ Delete("users", where, TRUE)
    \/ \E where \in CascadeWheres, failAt \in 1..2, torn \in BOOLEAN :
            DeleteWriteFails("users", where, <<"posts">>, failAt, torn)

SpecCrash == InitCrash /\ [][NextCrash]_vars

(***************************************************************************)
(* The nineteenth specification: two databases with the same tables, and   *)
(* use calls that succeed and that fail                                    *)
(***************************************************************************)
DatabaseNames == {Str("A"), Str(" B "), Str(""), Null}

TwoDbUserRows == {[id |-> Str("u1"), name |-> Str("a")]}

TwoDbPostRows == {[id |-> Str("u3"), user_id |-> Str("u1")]}

TwoDbPostsRelationships ==
    [user_id |-> [foreignTable |-> "users", foreignKey |-> "id"]]

TwoDbSelect == [join |-> <<[table |-> "users",
                            on |-> [local |-> "user_id", foreign |-> "id"]]>>]

NextTwoDbs ==
    \/ \E databaseName \in DatabaseNames : Use(databaseName)
    \/ CreateTable("users", ChainUsersColumns, <<>>, ChainOptions)
    \/ CreateTable("posts", ChainPostsColumns, TwoDbPostsRelationships,
                   ChainOptions)
    \/ \E row \in TwoDbUserRows : Insert("users", row)
    \/ \E row \in TwoDbPostRows : Insert("posts", row)
    \/ SelectQuery("posts", TwoDbSelect)
    \/ Update("users", [name |-> Str("b")], [id |-> Str("u1")])
    \/ Delete("users", [id |-> Str("u1")], TRUE)

SpecTwoDbs == Init /\ [][NextTwoDbs]_vars

(***************************************************************************)
(* The twentieth specification: pages of the users table of the fourth,    *)
(* with limits and offsets from 0 on                                       *)
(***************************************************************************)
LimitParts == {<<>>, [limit |-> Num(0)], [limit |-> Num(1)], [limit |-> Num(2)]}

OffsetParts ==
    {<<>>, [offset |-> Num(0)], [offset |-> Num(1)], [offset |-> Num(2)]}

PageOptions ==
    {o @@ l @@ g : o \in {<<>>, [orderBy |-> [field |-> "age"]]},
                   l \in LimitParts, g \in OffsetParts}

NextPage == \E options \in PageOptions : SelectQuery("users", options)

SpecPage == InitSel /\ [][NextPage]_vars

(***************************************************************************)
(* Properties                                                              *)
(***************************************************************************)
(* The table of the latest call, as the file holds it now *)
LastTable == disk[currentDb][last.table]

(* The id column is the one createTable adds *)
ImplicitId(table) == table.columns["id"] = [type |-> "uuid", required |-> TRUE]

(* The columns of the table that carry unique: true *)
UniqueColumns(table) ==
    {c \in DOMAIN table.columns :
        Has(table.columns[c], "unique") /\ table.columns[c].unique}

(* The columns of the table that carry required: true *)
RequiredColumns(table) ==
    {c \in DOMAIN table.columns :
        Has(table.columns[c], "required") /\ table.columns[c].required}

(* The patch names declared columns only and, merged into the row, breaks  *)
(* no constraint of the columns it names                                   *)
PatchOk(table, row, patch) ==
    \A c \in DOMAIN patch :
        /\ c \in DOMAIN table.columns
        /\ ColumnErrors(c, table.columns[c], Merge(row, patch),
                        OtherRows(table, row)) = {}

(* C1: on a table whose id column createTable added, an insert of a row    *)
(* that supplies no id and breaks no constraint of the caller's columns    *)
(* succeeds, and the returned and the stored row carry a generated id.     *)
C1_InsertGeneratesId ==
    (/\ last.op = "insert"
     /\ last.res \in {"ok", "validation"}
     /\ ImplicitId(LastTable)
     /\ "id" \notin DOMAIN last.row
     /\ \A e \in last.errs : e.col = "id")
    => /\ last.res = "ok"
       /\ Truthy(Get(last.ret[1], "id"))
       /\ Get(LastTable.rows[Len(LastTable.rows)], "id") = Get(last.ret[1], "id")

(* C2: with timestamps enabled, insert stores createdAt and updatedAt on   *)
(* the row, and an update of a matching row with a schema-valid patch is   *)
(* applied: the count is at least 1, the stored row shows the patch,       *)
(* updatedAt is the time of the update and createdAt is kept.              *)
C2_UpdateRefreshesUpdatedAt ==
    [][(/\ clock' = clock
        /\ last'.op \in {"insert", "update"}
        /\ last'.res = "ok"
        /\ disk[currentDb][last'.table].options.timestamps)
       => LET table == disk[currentDb][last'.table]
              before == table.rows
              after == disk'[currentDb][last'.table].rows
          IN  IF last'.op = "insert"
              THEN /\ Truthy(Get(after[Len(after)], "createdAt"))
                   /\ Truthy(Get(after[Len(after)], "updatedAt"))
              ELSE \A i \in 1..Len(before) :
                      (/\ Matches(before[i], last'.where)
                       /\ PatchOk(table, before[i], last'.row))
                      => /\ last'.count >= 1
                         /\ \A f \in DOMAIN last'.row :
                               Get(after[i], f) = Persist(last'.row[f])
                         /\ Get(after[i], "updatedAt") = Str(Iso(clock))
                         /\ Get(after[i], "createdAt") = Get(before[i], "createdAt")
      ]_vars

(* C3: when a stored row holds the non-null value v in a unique column c,  *)
(* an insert of a row with c = v fails with a uniqueness violation naming  *)
(* c and adds no row, whatever id the row supplies or omits.               *)
C3_SecondInsertRejected ==
    [][(/\ clock' = clock
        /\ last'.op = "insert"
        /\ last'.res \in {"ok", "validation"})
       => LET table == disk[currentDb][last'.table]
          IN  \A c \in UniqueColumns(table) :
                (/\ Get(last'.row, c).k \notin {"undef", "null"}
                 /\ \E i \in 1..Len(table.rows) :
                        Get(table.rows[i], c) = last'.row[c])
                => /\ last'.res = "validation"
                   /\ [kind |-> "unique", col |-> c] \in last'.errs
                   /\ disk' = disk
      ]_vars

(* C4: an update that sets a unique column c of a row to the value the     *)
(* row already holds is applied to that row and counted; an update that    *)
(* sets c to a value another row holds leaves the row as it was.           *)
C4_SelfUniqueUpdateApplied ==
    [][(/\ clock' = clock
        /\ last'.op = "update"
        /\ last'.res = "ok")
       => LET table == disk[currentDb][last'.table]
              before == table.rows
              after == disk'[currentDb][last'.table].rows
              patch == last'.row
          IN  \A c \in UniqueColumns(table) \cap DOMAIN patch :
                /\ DOMAIN patch = {c}
                   => Cardinality({i \in 1..Len(before) :
                                     /\ Matches(before[i], last'.where)
                                     /\ StrictEq(Get(before[i], c), patch[c])})
                      <= last'.count
                /\ \A i \in 1..Len(before) :
                      (/\ Matches(before[i], last'.where)
                       /\ ~ StrictEq(Get(before[i], c), patch[c])
                       /\ \E k \in 1..Len(before) :
                              k # i /\ StrictEq(Get(before[k], c), patch[c]))
                      => after[i] = before[i]
      ]_vars

(* C5: an insert of a row in which a required column c is undefined or     *)
(* null fails with a validation error naming c; an insert of a row that    *)
(* holds every required column of the caller's and breaks no constraint    *)
(* of the caller's columns succeeds.                                       *)
C5_RequiredColumn ==
    (last.op = "insert" /\ last.res \in {"ok", "validation"})
    => /\ \A c \in RequiredColumns(LastTable) :
            Get(last.row, c).k \in {"undef", "null"}
            => /\ last.res = "validation"
               /\ [kind |-> "required", col |-> c] \in last.errs
       /\ (/\ \A c \in RequiredColumns(LastTable) \ {"id"} :
                Get(last.row, c).k \notin {"undef", "null"}
           /\ last.errs \subseteq {[kind |-> "required", col |-> "id"]})
          => last.res = "ok"

(* The relationships of the table whose local field the row holds *)
PresentRelationships(table, row) ==
    {field \in DOMAIN table.relationships : Get(row, field).k # "undef"}

(* Some row of the foreign table, as the file holds it, has the value as    *)
(* its referenced key                                                      *)
Referenced(rel, value) ==
    \E j \in 1..Len(disk[currentDb][rel.foreignTable].rows) :
        Get(disk[currentDb][rel.foreignTable].rows[j], rel.foreignKey) = value

(* C6: an insert that passed schema validation, of a row that holds a      *)
(* relationship's local field, fails with table-not-found when the foreign *)
(* table does not exist, fails with a foreign-key violation when no row of *)
(* the foreign table has the value as its referenced key, and succeeds     *)
(* when such a row exists.                                                 *)
C6_InsertForeignKey ==
    [][(/\ clock' = clock
        /\ last'.op = "insert"
        /\ last'.res \notin {"nodb", "notfound", "validation"})
       => LET table == disk[currentDb][last'.table]
          IN  \A field \in PresentRelationships(table, last'.row) :
                LET rel == table.relationships[field]
                IN  IF ~ disk[currentDb][rel.foreignTable].exists
                    THEN last'.res = "fk_notfound"
                    ELSE IF ~ Referenced(rel, last'.row[field])
                    THEN last'.res = "fk_violation"
                    ELSE last'.res = "ok"
      ]_vars

(* An insert refused for its foreign key while users holds rows *)
C6_Witness ==
    /\ last.op = "insert"
    /\ last.table = "posts"
    /\ last.res = "fk_violation"
    /\ disk[currentDb]["users"].exists
    /\ Len(disk[currentDb]["users"].rows) > 0

(* C7: an update whose patch sets a relationship's local field, on a row   *)
(* that matches and whose merged row passes schema validation, fails with  *)
(* table-not-found when the foreign table does not exist, and is rejected  *)
(* with a foreign-key violation, the row keeping its previous value, when  *)
(* no row of the foreign table has the value as its referenced key.        *)
C7_UpdateForeignKey ==
    [][(/\ clock' = clock
        /\ last'.op = "update"
        /\ last'.res \notin {"nodb", "notfound"})
       => LET table == disk[currentDb][last'.table]
              before == table.rows
              after == disk'[currentDb][last'.table].rows
              patch == last'.row
          IN  \A field \in PresentRelationships(table, patch) :
              \A i \in 1..Len(before) :
                (/\ Matches(before[i], last'.where)
                 /\ ValidateRow(Merge(before[i], patch), table.columns,
                                OtherRows(table, before[i])).errors = {})
                => LET rel == table.relationships[field]
                   IN  IF ~ disk[currentDb][rel.foreignTable].exists
                       THEN last'.res = "fk_notfound"
                       ELSE ~ Referenced(rel, patch[field])
                            => /\ last'.res = "fk_violation"
                               /\ after[i] = before[i]
      ]_vars

(* C8: with posts.user_id -> users.id, a delete on users with cascade      *)
(* leaves in posts exactly the rows whose user_id is the id of no deleted  *)
(* user, in their order, and leaves in users the rows that did not match.  *)
C8_CascadeDelete ==
    (/\ last.op = "delete"
     /\ last.res = "ok"
     /\ last.cascade
     /\ last.table = "users"
     /\ last.before["posts"].exists
     /\ last.before["posts"].relationships = PostsRelationships)
    => LET usersBefore == last.before["users"].rows
           postsBefore == last.before["posts"].rows
           deleted == {i \in 1..Len(usersBefore) :
                          Matches(usersBefore[i], last.where)}
       IN  /\ disk[currentDb]["posts"].rows =
                 SelectSeq(postsBefore,
                           LAMBDA p : \A i \in deleted :
                               Get(p, "user_id") # Get(usersBefore[i], "id"))
           /\ disk[currentDb]["users"].rows =
                 SelectSeq(usersBefore, LAMBDA u : ~ Matches(u, last.where))

(* A cascade that removed some posts and kept others *)
C8_Witness ==
    /\ last.op = "delete"
    /\ last.res = "ok"
    /\ last.cascade
    /\ last.count >= 1
    /\ last.before["posts"].exists
    /\ Len(disk[currentDb]["posts"].rows) >= 1
    /\ Len(disk[currentDb]["posts"].rows) < Len(last.before["posts"].rows)

(* C9: an insert that fails, on schema validation, on a missing foreign    *)
(* table or on a foreign-key violation, leaves the unit of its table and   *)
(* of every other table as it was.                                         *)
C9_FailedInsertWritesNothing ==
    [][(/\ clock' = clock
        /\ last'.op = "insert"
        /\ last'.res # "ok")
       => disk' = disk
      ]_vars

(* An insert into posts refused after validation, posts holding a row *)
C9_Witness ==
    /\ last.op = "insert"
    /\ last.table = "posts"
    /\ last.res \in {"fk_notfound", "fk_violation"}
    /\ Len(disk[currentDb]["posts"].rows) >= 1

(* C10: after an insert into a table with encrypted fields succeeds, a     *)
(* select with the same key returns the row with every encrypted field     *)
(* the row supplied at the value supplied.                                 *)
C10_EncryptRoundTrip ==
    (/\ last.op = "insert"
     /\ last.res = "ok"
     /\ HasEncryptedFields(LastTable))
    => LET selected == SelectRows(LastTable, <<>>)
       IN  \A f \in EncryptedFields(LastTable) \cap DOMAIN last.row :
              Get(selected[Len(selected)], f) = last.row[f]

(* C11: in a table whose options carry a key and list f as encrypted,      *)
(* every stored row holds f, where it holds a value, as the tagged         *)
(* ciphertext, after any insert, insertMany, update, addColumn or migrate. *)
C11_EncryptedAtRest ==
    \A d \in Databases, t \in TableNames :
        (/\ disk[d][t].exists
         /\ HasEncryptedFields(disk[d][t])
         /\ KeyOf(disk[d][t]) # "")
        => \A i \in 1..Len(disk[d][t].rows) :
           \A f \in EncryptedFields(disk[d][t]) :
              Get(disk[d][t].rows[i], f).k \in {"undef", "null", "enc"}

(* The rows of the join's table whose foreign key equals the row's local   *)
(* key, in the order of the file                                           *)
ForeignMatches(join, row) ==
    SelectSeq(disk[currentDb][join.table].rows, LAMBDA jrow :
        Get(jrow, join.on.foreign) = Get(row, join.on.local))

(* The positions of the result that hold the row of that id *)
Hits(id) == {k \in 1..Len(last.ret) : Get(last.ret[k], "id") = id}

(* C12: for a select with a join whose table exists, and no limit or       *)
(* offset, every row that survives the filter and has m foreign rows with  *)
(* its key is dropped (inner) or returned with null under the alias        *)
(* (left) when m = 0, returned with the one foreign row when m = 1, and    *)
(* with the list of all m foreign rows when m > 1.                         *)
C12_JoinSlot ==
    (/\ last.op = "select"
     /\ last.res = "ok"
     /\ "join" \in DOMAIN last.options
     /\ "limit" \notin DOMAIN last.options
     /\ "offset" \notin DOMAIN last.options
     /\ disk[currentDb][last.options.join[1].table].exists)
    => LET join == last.options.join[1]
           alias == IF "as" \in DOMAIN join THEN join.as ELSE join.table
           inner == "type" \in DOMAIN join /\ join.type = "inner"
           survivors == WhereFilter(DecryptRows(LastTable), last.options)
       IN  \A i \in 1..Len(survivors) :
              LET m == Len(ForeignMatches(join, survivors[i]))
                  hits == Hits(survivors[i].id)
              IN  IF m = 0 /\ inner THEN hits = {}
                  ELSE /\ Cardinality(hits) = 1
                       /\ \A k \in hits :
                             Get(last.ret[k], alias) =
                                IF m = 0 THEN Null
                                ELSE IF m = 1
                                THEN Obj(ForeignMatches(join, survivors[i])[1])
                                ELSE List(ForeignMatches(join, survivors[i]))

(* A left join that returned a user with two posts and a user with none *)
C12_Witness ==
    /\ last.op = "select"
    /\ last.table = "users"
    /\ "join" \in DOMAIN last.options
    /\ \E i \in 1..Len(last.ret), j \in 1..Len(last.ret) :
          /\ Get(last.ret[i], "posts").k = "list"
          /\ Get(last.ret[j], "posts").k = "null"

(* The rows before pagination: filtered, joined and, with orderBy, sorted *)
BeforePaging ==
    SortRows(JoinRows(WhereFilter(DecryptRows(LastTable), last.options),
                      last.options),
             last.options)

(* The rows at positions o .. min(o + l, n) - 1, counted from 0 *)
Window(rows, o, l) ==
    LET n == Len(rows)
        end == IF o + l < n THEN o + l ELSE n
    IN  [i \in 1..(IF end > o THEN end - o ELSE 0) |-> rows[o + i]]

(* C13: select with offset o >= 0 and limit l >= 1 returns the rows at     *)
(* positions o .. min(o + l, n) - 1 of the filtered (and, with orderBy,    *)
(* sorted) sequence, in that order; an omitted offset is 0 and an omitted  *)
(* limit takes all remaining rows.                                         *)
C13_Pagination ==
    (last.op = "select" /\ last.res = "ok")
    => LET o == IF "offset" \in DOMAIN last.options
                THEN last.options.offset.n ELSE 0
           l == IF "limit" \in DOMAIN last.options
                THEN last.options.limit.n ELSE Len(BeforePaging)
       IN  (o >= 0 /\ ("limit" \in DOMAIN last.options => l >= 1))
           => last.ret = Project(Window(BeforePaging, o, l), last.options)

(* A page of two rows taken from three, past the first *)
C13_Witness ==
    /\ last.op = "select"
    /\ "limit" \in DOMAIN last.options
    /\ "offset" \in DOMAIN last.options
    /\ "orderBy" \in DOMAIN last.options
    /\ Len(last.ret) = 2
    /\ Len(BeforePaging) = 3

(* The stored row of that id, deciphered *)
StoredRow(id) ==
    LET rows == DecryptRows(LastTable)
    IN  rows[CHOOSE i \in 1..Len(rows) : Get(rows[i], "id") = id]

(* C14: select returns project(paginate(sort(join(filter(decrypt))))):     *)
(* a where entry on a join alias sees no alias, so a where asking for      *)
(* null under it returns nothing; the page is cut from the sorted rows;    *)
(* the rows come in the order of the orderBy field although the fields     *)
(* list omits it; and the projection is the last stage.                    *)
C14_PipelineOrder ==
    (last.op = "select" /\ last.res = "ok")
    => /\ last.ret =
             Project(Paginate(SortRows(JoinRows(WhereFilter(
                DecryptRows(LastTable), last.options), last.options),
                last.options), last.options), last.options)
       /\ ("where" \in DOMAIN last.options /\ "join" \in DOMAIN last.options)
          => \A a \in DOMAIN last.options.where :
                (/\ a = JoinAs(last.options.join[1])
                 /\ last.options.where[a] = Null)
                => last.ret = <<>>
       /\ (/\ "orderBy" \in DOMAIN last.options
           /\ last.options.orderBy.field = "age"
           /\ "fields" \in DOMAIN last.options)
          => \A k \in 1..(Len(last.ret) - 1) :
                LET x == Get(StoredRow(last.ret[k].id), "age")
                    y == Get(StoredRow(last.ret[k + 1].id), "age")
                IN  IF "direction" \in DOMAIN last.options.orderBy
                    THEN y.n <= x.n
                    ELSE x.n <= y.n

(* Two rows returned without their age, in the order of age and not of    *)
(* the file, cut from three sorted rows                                    *)
C14_Witness ==
    /\ last.op = "select"
    /\ "join" \in DOMAIN last.options
    /\ "orderBy" \in DOMAIN last.options
    /\ last.options.orderBy.field = "age"
    /\ "limit" \in DOMAIN last.options
    /\ "fields" \in DOMAIN last.options
    /\ Len(last.ret) = 2
    /\ \A k \in 1..2 : "age" \notin DOMAIN last.ret[k]
    /\ Len(LastTable.rows) = 3
    /\ last.ret[1].id = LastTable.rows[3].id

(* What an operator asks of the field's value v, given the operand x *)
OperatorMeans(operator, v, x) ==
    CASE operator = "$eq" -> v = x
      [] operator = "$ne" -> v # x
      [] operator = "$gt" -> v.k = "num" /\ v.n > x.n
      [] operator = "$gte" -> v.k = "num" /\ v.n >= x.n
      [] operator = "$lt" -> v.k = "num" /\ v.n < x.n
      [] operator = "$lte" -> v.k = "num" /\ v.n <= x.n
      [] operator = "$in" -> \E i \in 1..Len(x.items) : x.items[i] = v
      [] operator = "$nin" -> \A i \in 1..Len(x.items) : x.items[i] # v
      [] operator = "$like" -> v.k = "str" /\ LikeTest(v.s, x.s)
      [] operator = "$regex" -> v.k = "str" /\ PatternTest(x.s, v.s)

(* Every entry of the where holds for the row *)
WhereMeans(row, where) ==
    \A key \in DOMAIN where :
        IF where[key].k = "ops"
        THEN \A operator \in DOMAIN where[key].ops :
                OperatorMeans(operator, Get(row, key), where[key].ops[operator])
        ELSE Get(row, key) = where[key]

Revalidates(table, row, patch) ==
    ValidateRow(Merge(row, patch), table.columns, OtherRows(table, row)).errors = {}

(* C17: an update does not raise; a matching row that fails re-validation  *)
(* keeps its value, a matching row that passes shows the patch, a row      *)
(* that does not match is unchanged; the count is the number of rows that  *)
(* passed, and the file is written only when the count is positive.        *)
C17_UpdatePerRow ==
    [][(/\ last'.op = "update"
        /\ last'.res \notin {"nodb", "notfound"})
       => LET table == disk[currentDb][last'.table]
              before == table.rows
              after == disk'[currentDb][last'.table].rows
              patch == last'.row
              passed == {i \in 1..Len(before) :
                            /\ Matches(before[i], last'.where)
                            /\ Revalidates(table, before[i], patch)}
          IN  /\ last'.res = "ok"
              /\ Len(after) = Len(before)
              /\ last'.count = Cardinality(passed)
              /\ last'.count = 0 => disk' = disk
              /\ \A i \in 1..Len(before) :
                    IF i \in passed
                    THEN \A f \in DOMAIN patch :
                            Get(DecryptRow(table, after[i]), f) = Persist(patch[f])
                    ELSE after[i] = before[i]
      ]_vars

(* An update that matched every row and applied to some of them only *)
C17_Witness ==
    /\ last.op = "update"
    /\ last.where = <<>>
    /\ last.count >= 1
    /\ last.count < Len(LastTable.rows)
    /\ \E i \in 1..Len(LastTable.rows) :
          \E f \in DOMAIN last.row : Get(LastTable.rows[i], f) # last.row[f]

(* The rows select(table, {where}) returns, as positions of the stored rows *)
Selected(table, where) ==
    {i \in 1..Len(table.rows) :
        \A key \in DOMAIN where :
            ConditionHolds(DecryptRow(table, table.rows[i]), key, where[key])}

(* C18: update and delete act on exactly the rows that select returns for  *)
(* the same where, operator conditions and conditions on encrypted fields  *)
(* included: delete removes those rows and no other; update leaves every   *)
(* other row alone and counts those of them that pass re-validation.       *)
C18_SameRowsAsSelect ==
    [][(/\ last'.op \in {"update", "delete"}
        /\ last'.res = "ok")
       => LET table == disk[currentDb][last'.table]
              before == table.rows
              after == disk'[currentDb][last'.table].rows
              selected == Selected(table, last'.where)
          IN  IF last'.op = "delete"
              THEN /\ last'.count = Cardinality(selected)
                   /\ after = SelectSeq(before,
                                LAMBDA row : \A i \in selected : before[i] # row)
              ELSE /\ last'.count =
                        Cardinality({i \in selected :
                                        Revalidates(table, before[i], last'.row)})
                   /\ \A i \in (1..Len(before)) \ selected : after[i] = before[i]
      ]_vars

(* C19: insertMany is the inserts of its elements, in input order: every   *)
(* turn of the batch does to the table what insert of the next element     *)
(* does to the table as the previous turns left it, the row insert returns *)
(* is appended to the results, and the call resolves with the results      *)
(* of all elements.                                                        *)
C19_InsertManyIsInserts ==
    [][(batch' # batch)
       => LET results == IF batch.active THEN batch.results ELSE <<>>
              items == batch'.items
          IN  IF Len(items) = 0
              THEN disk' = disk /\ batch'.reported = Resolved(<<>>)
              ELSE LET rowData == items[Len(results) + 1]
                       outcome == InsertOutcome(batch'.table, rowData,
                                                CHOOSE g \in FreshUuids : TRUE)
                   IN  /\ disk' = IF outcome.write
                                  THEN [disk EXCEPT ![currentDb][batch'.table].rows =
                                           PersistRows(outcome.rows)]
                                  ELSE disk
                       /\ last'.op = "insert" /\ last'.row = rowData
                       /\ last'.res = outcome.res
                       /\ IF outcome.res = "ok"
                          THEN /\ batch'.results = Append(results, outcome.ret)
                               /\ last'.ret = <<outcome.ret>>
                               /\ batch'.active = (Len(batch'.results) < Len(items))
                               /\ ~ batch'.active
                                    => batch'.reported = Resolved(batch'.results)
                          ELSE /\ batch'.results = results
                               /\ ~ batch'.active
      ]_vars

(* A batch that repeats a unique value: its first element is in the table, *)
(* its second was rejected for the value                                   *)
C19_Witness ==
    /\ ~ batch.active
    /\ "items" \in DOMAIN batch
    /\ Len(batch.items) = 2
    /\ Len(batch.results) = 1
    /\ batch.items[1].email = batch.items[2].email
    /\ batch.reported.k = "error"
    /\ batch.reported.res = "validation"
    /\ last.op = "insert" /\ last.row = batch.items[2]
    /\ \E i \in 1..Len(LastTable.rows) : LastTable.rows[i] = batch.results[1]

(* C20: when an element of a batch fails after earlier elements were       *)
(* inserted, the rows of the earlier elements stay in the table, nothing   *)
(* more is inserted, the loop ends, and what the caller is given carries   *)
(* the number of completed elements and the number of elements attempted.  *)
C20_BatchFailureReported ==
    [][(/\ batch' # batch
        /\ ~ batch'.active
        /\ batch'.reported.k = "error"
        /\ Len(batch'.results) >= 1)
       => /\ disk' = disk
          /\ \A j \in 1..Len(batch'.results) :
                \E i \in 1..Len(disk'[currentDb][batch'.table].rows) :
                    disk'[currentDb][batch'.table].rows[i] = batch'.results[j]
          /\ "completed" \in DOMAIN batch'.reported
          /\ "attempted" \in DOMAIN batch'.reported
          /\ batch'.reported.completed = Len(batch'.results)
          /\ batch'.reported.attempted = Len(batch'.items)
      ]_vars

(* The rows of the table the delete was to remove *)
DeletedRows(before) ==
    SelectSeq(before[last.table].rows, LAMBDA row : Matches(row, last.where))

(* C21: when the write of a dependent table fails during a delete with     *)
(* cascade, the dependent tables written before it hold their rows without *)
(* those that referred to the deleted rows, every table after it and the   *)
(* table deleted from are as the call found them, and the call ends with   *)
(* the failure.                                                            *)
C21_CascadeWriteFailure ==
    (/\ last.op = "delete" /\ last.cascade
     /\ last.failed # "" /\ last.failed # last.table)
    => LET db == disk[currentDb]
           before == last.before
           earlier == {last.written[k] : k \in 1..Len(last.written)}
                      \ {last.failed}
       IN  /\ last.res = "write_failed"
           /\ \A t \in earlier :
                 /\ PointingFields(before[t], last.table) # {}
                 /\ db[t] = [before[t] EXCEPT !.rows =
                                SelectSeq(before[t].rows,
                                    LAMBDA row :
                                        \A field \in PointingFields(before[t],
                                                                    last.table) :
                                            ~ IdsInclude(DeletedRows(before),
                                                         Get(row, field)))]
           /\ \A t \in TableNames \ (earlier \cup {last.failed}) :
                 db[t] = before[t]
           /\ db[last.table] = before[last.table]

(* The write of the second dependent table failed after the first lost a   *)
(* row, and the second holds a row that refers to a deleted row            *)
C21_Witness ==
    /\ last.op = "delete" /\ last.cascade /\ last.res = "write_failed"
    /\ Len(last.written) = 1
    /\ last.failed \notin {last.table, last.written[1]}
    /\ Len(disk[currentDb][last.written[1]].rows)
          < Len(last.before[last.written[1]].rows)
    /\ Len(DeletedRows(last.before)) >= 1
    /\ \E i \in 1..Len(last.before[last.failed].rows) :
          IdsInclude(DeletedRows(last.before),
                     Get(last.before[last.failed].rows[i], "user_id"))

(* Both processes read the file before either wrote it, and both wrote *)
Raced ==
    /\ Len(procs.log) = 4
    /\ procs.log[1].ev = "load" /\ procs.log[2].ev = "load"
    /\ procs.log[3].ev = "save" /\ procs.log[4].ev = "save"

(* C22: when two processes both read the file of a table before either     *)
(* writes it, the file after both writes is what the later writer's call   *)
(* makes of the file as it was read, alone: nothing of the earlier         *)
(* writer's call is in it beyond that, and both calls report success.      *)
C22_LastWriteWins ==
    Raced
    => LET first == procs.at[procs.log[3].p]
           later == procs.at[procs.log[4].p]
           tableName == later.call.table
           alone == CallOutcome(later.call, first.table)
       IN  /\ first.table = later.table
           /\ first.res = "ok" /\ later.res = "ok"
           /\ alone.write
           /\ disk[currentDb][tableName] =
                 [first.table EXCEPT !.rows = PersistRows(alone.rows)]

(* The earlier writer inserted a row with success; the file does not hold it *)
C22_Witness ==
    /\ Raced
    /\ LET first == procs.at[procs.log[3].p]
       IN  /\ first.call.op = "insert" /\ first.res = "ok"
           /\ \A i \in 1..Len(disk[currentDb]["users"].rows) :
                 Get(disk[currentDb]["users"].rows[i], "id") # first.call.row.id

(* The rows a call has been handed back by its inserts so far *)
ReturnedRows(b) ==
    IF "results" \in DOMAIN b
    THEN {b.results[j] : j \in 1..Len(b.results)} ELSE {}

(* The call ended and resolved with a row for each of its elements *)
ResolvedAll(b) ==
    /\ "reported" \in DOMAIN b
    /\ b.reported.k = "rows"
    /\ Len(b.results) = Len(b.items)

C24_ExistenceErrors ==
    [][(currentDb # "" /\ last'.table \in TableNames)
       => /\ (last'.op = "createTable" /\ TableExists(last'.table))
             => (last'.res = "exists" /\ disk' = disk)
          /\ (/\ last'.op \in {"insert", "select", "update", "delete", "addIndex",
                               "addColumn", "removeColumn", "migrate"}
              /\ ~ TableExists(last'.table))
             => (last'.res = "notfound" /\ disk' = disk)
      ]_vars

(* C25: before any successful use, every operation but use fails with the  *)
(* database-not-selected error and changes no file: createTable, insert,   *)
(* insertMany, select, update, delete, addIndex, addColumn, removeColumn   *)
(* and migrate alike.                                                      *)
C25_NoDatabaseSelected ==
    [][(currentDb = "" /\ last'.op \notin {"use", "none"})
       => (last'.res = "nodb" /\ disk' = disk)
      ]_vars

(* C26: migrate hands every row, in order, to the function; a row for      *)
(* which the function throws stays as it was, every other row becomes what *)
(* the function returned, and the table has as many rows in the same       *)
(* order afterwards.                                                       *)
C26_MigrateFullPass ==
    [][(last'.op = "migrate" /\ last'.res = "ok")
       => LET before == disk[currentDb][last'.table].rows
              after == disk'[currentDb][last'.table].rows
          IN  /\ Len(after) = Len(before)
              /\ \A i \in 1..Len(before) :
                    LET applied == ApplyMigration(last'.fn, before[i])
                    IN  after[i] = IF applied.threw THEN before[i]
                                   ELSE PersistRow(applied.row)
      ]_vars

(* The fields a stored row may have: the declared columns, id, and the     *)
(* stamps when timestamps are on                                           *)
AllowedFields(table) ==
    DOMAIN table.columns \cup {"id"}
    \cup (IF table.options.timestamps THEN {"createdAt", "updatedAt"} ELSE {})

(* C27: in every file, every field of every row is a declared column of    *)
(* the table, id, or, with timestamps on, createdAt or updatedAt, whatever *)
(* inserts, updates, addColumn, removeColumn and migrate calls came        *)
(* before.                                                                 *)
C27_OnlyDeclaredFields ==
    \A d \in Databases, t \in TableNames :
        disk[d][t].exists
        => \A i \in 1..Len(disk[d][t].rows) :
              DOMAIN disk[d][t].rows[i] \subseteq AllowedFields(disk[d][t])

(* The positions, from 0 and ascending, of the rows whose field is v *)
PositionsOf(rows, field, v) ==
    SelectSeq([i \in 1..Len(rows) |-> i - 1],
              LAMBDA idx : /\ field \in DOMAIN rows[idx + 1]
                           /\ rows[idx + 1][field] = v)

(* C28: addIndex with a hash index on a field stores in the file a map     *)
(* that has, for each value of the field among the rows, an entry with     *)
(* exactly the positions of the rows whose field has that value, and no    *)
(* other entry, so that two different values never share one.              *)
C28_HashIndexData ==
    [][(/\ last'.op = "addIndex"
        /\ "type" \in DOMAIN last'.options /\ last'.options.type = "hash"
        /\ currentDb # "" /\ TableExists(last'.table))
       => LET rows == disk[currentDb][last'.table].rows
              field == last'.field
              indexes == disk'[currentDb][last'.table].indexes
              values == {rows[i][field] :
                            i \in {j \in 1..Len(rows) : field \in DOMAIN rows[j]}}
          IN  /\ last'.res = "ok"
              /\ field \in DOMAIN indexes
              /\ "data" \in DOMAIN indexes[field]
              /\ \A v \in values :
                    \E key \in DOMAIN indexes[field].data :
                        indexes[field].data[key] = PositionsOf(rows, field, v)
              /\ \A key \in DOMAIN indexes[field].data :
                    \E v \in values :
                        indexes[field].data[key] = PositionsOf(rows, field, v)
      ]_vars

(* C29: an insert, update, delete or migrate on a table leaves every index *)
(* of the table, definition and hash data, as it was stored by addIndex,   *)
(* and select gives what it gives on the same table without indexes.       *)
C29_IndexNeverRefreshed ==
    [][(/\ currentDb # "" /\ last'.table \in TableNames
        /\ TableExists(last'.table))
       => LET table == disk[currentDb][last'.table]
          IN  /\ last'.op \in {"insert", "update", "delete", "migrate"}
                 => disk'[currentDb][last'.table].indexes = table.indexes
              /\ last'.op = "select"
                 => /\ disk' = disk
                    /\ last'.ret =
                          WhereFilter(DecryptRows([table EXCEPT !.indexes = <<>>]),
                                      last'.options)
      ]_vars

(* A write went through after a hash index was built, and the data of the  *)
(* index is no longer what the rows give                                   *)
C29_Witness ==
    /\ last.op \in {"insert", "update", "delete", "migrate"}
    /\ last.res = "ok"
    /\ "age" \in DOMAIN LastTable.indexes
    /\ "data" \in DOMAIN LastTable.indexes["age"]
    /\ LastTable.indexes["age"].data # HashIndex(LastTable.rows, "age")

(* C30: addColumn on a column the table has fails with the column-exists   *)
(* error, removeColumn on a column the table does not have fails with the  *)
(* column-not-found error, and neither changes the file; addColumn with    *)
(* success declares the column and sets the field of every row to the      *)
(* default, or null, removeColumn with success drops the column and the    *)
(* field of every row, and neither touches another field.                  *)
C30_AddAndRemoveColumn ==
    [][(/\ last'.op \in {"addColumn", "removeColumn"}
        /\ currentDb # "" /\ TableExists(last'.table))
       => LET table == disk[currentDb][last'.table]
              after == disk'[currentDb][last'.table]
              columnName == last'.field
              declared == columnName \in DOMAIN table.columns
          IN  IF last'.op = "addColumn"
              THEN /\ declared => (last'.res = "exists" /\ disk' = disk)
                   /\ last'.res = "ok"
                      => /\ DOMAIN after.columns
                              = DOMAIN table.columns \cup {columnName}
                         /\ \A c \in DOMAIN table.columns :
                               after.columns[c] = table.columns[c]
                         /\ Len(after.rows) = Len(table.rows)
                         /\ \A i \in 1..Len(table.rows) :
                               after.rows[i] =
                                  Set(table.rows[i], columnName,
                                      Persist(ColumnDefault(last'.definition)))
              ELSE /\ ~ declared => (last'.res = "no_column" /\ disk' = disk)
                   /\ last'.res = "ok"
                      => /\ DOMAIN after.columns
                              = DOMAIN table.columns \ {columnName}
                         /\ \A c \in DOMAIN after.columns :
                               after.columns[c] = table.columns[c]
                         /\ Len(after.rows) = Len(table.rows)
                         /\ \A i \in 1..Len(table.rows) :
                               after.rows[i] = Unset(table.rows[i], columnName)
      ]_vars

(* The stored rows a select with an equality where on plain fields reads,  *)
(* in the order of the file                                                *)
SourceRows ==
    SelectSeq(LastTable.rows, LAMBDA row :
        "where" \in DOMAIN last.options
        => \A key \in DOMAIN last.options.where :
              Get(row, key) = last.options.where[key])

(* The stored value is a tagged object the table's key does not decipher *)
Undecipherable(v, table) ==
    v.k = "enc" /\ (v.key # KeyOf(table) \/ v.j = Garbage.j)

(* C31: select of a table with encrypted fields does not raise; a field    *)
(* whose stored value is a tagged object of another key, or a corrupt one, *)
(* comes back as that stored object, never as a plain value, and a stored  *)
(* value without the tag comes back unchanged.                             *)
C31_WrongKeyOrCorrupt ==
    (/\ last.op = "select"
     /\ currentDb # "" /\ TableExists(last.table)
     /\ HasEncryptedFields(LastTable))
    => /\ last.res = "ok"
       /\ Len(last.ret) = Len(SourceRows)
       /\ \A i \in 1..Len(SourceRows) :
          \A f \in EncryptedFields(LastTable) \cap DOMAIN SourceRows[i] :
             LET stored == SourceRows[i][f]
             IN  /\ Undecipherable(stored, LastTable)
                    => (Get(last.ret[i], f) = stored
                        /\ Get(last.ret[i], f).k = "enc")
                 /\ stored.k # "enc" => Get(last.ret[i], f) = stored

C31_Witness ==
    /\ last.op = "select" /\ last.res = "ok"
    /\ \E i, j \in 1..Len(last.ret) :
          /\ Get(last.ret[i], "secret") = EncObj("k2", JsonText(Num(7)))
          /\ Get(last.ret[j], "secret") = EncObj("k1", Garbage)

(* C32: no two stored rows of a table hold the same value, other than null *)
(* or none, in a column declared unique, after any insert, insertMany and  *)
(* update.                                                                 *)
C32_UniqueColumnsHold ==
    \A d \in Databases, t \in TableNames :
        disk[d][t].exists
        => \A c \in UniqueColumns(disk[d][t]) :
           \A i, j \in 1..Len(disk[d][t].rows) :
              (/\ i # j
               /\ Get(disk[d][t].rows[i], c).k \notin {"undef", "null"})
              => Get(disk[d][t].rows[i], c) # Get(disk[d][t].rows[j], c)

(* The row's value of the relationship field is the referenced key of a    *)
(* stored row of the foreign table                                         *)
ReferenceResolves(db, rel, value) ==
    /\ db[rel.foreignTable].exists
    /\ \E k \in 1..Len(db[rel.foreignTable].rows) :
          Get(db[rel.foreignTable].rows[k], rel.foreignKey) = value

(* C33: after inserts and deletes issued with cascade: true, every value a *)
(* stored row holds in a relationship field is the referenced key of some  *)
(* stored row of the foreign table, for chains of relationships, for a     *)
(* table that references itself and for a foreignKey other than id.        *)
C33_NoDanglingReference ==
    \A d \in Databases, t \in TableNames :
        disk[d][t].exists
        => \A i \in 1..Len(disk[d][t].rows) :
           \A field \in DOMAIN disk[d][t].relationships :
              Get(disk[d][t].rows[i], field).k \notin {"undef", "null"}
              => ReferenceResolves(disk[d], disk[d][t].relationships[field],
                                   Get(disk[d][t].rows[i], field))

(* C34: in a table whose id column is the one createTable adds, every      *)
(* stored row has an id and no two stored rows have the same id, after any *)
(* insert, update, removeColumn and migrate.                               *)
C34_IdsPresentAndDistinct ==
    \A d \in Databases, t \in TableNames :
        (/\ disk[d][t].exists
         /\ "id" \in DOMAIN disk[d][t].columns
         /\ ImplicitId(disk[d][t]))
        => /\ \A i \in 1..Len(disk[d][t].rows) :
                Get(disk[d][t].rows[i], "id").k \notin {"undef", "null"}
           /\ \A i, j \in 1..Len(disk[d][t].rows) :
                i # j => Get(disk[d][t].rows[i], "id")
                            # Get(disk[d][t].rows[j], "id")

(* The rows of the table deleted from that the stopped call has taken out  *)
(* of its file: none while the file is as the call found it; once the      *)
(* write of the file has begun, the rows the where matched                 *)
RemovedSoFar ==
    IF Readable(LastTable) /\ LastTable = last.before[last.table]
    THEN <<>>
    ELSE SelectSeq(last.before[last.table].rows,
                   LAMBDA row : Matches(row, last.where))

(* C35: when a delete with cascade stops at any of its writes, the file of *)
(* the table deleted from was not written before any dependent file, and   *)
(* no row of a dependent table holds, in a relationship field that names   *)
(* the table deleted from, the referenced key of a row the call has        *)
(* already taken out of that table.                                        *)
C35_DependentsBeforePrimary ==
    (/\ last.op = "delete" /\ last.cascade /\ last.res = "write_failed")
    => /\ \A k \in 1..Len(last.written) : last.written[k] # last.table
       /\ \A t \in TableNames \ {last.table} :
             (disk[currentDb][t].exists /\ Readable(disk[currentDb][t]))
             => \A field \in PointingFields(disk[currentDb][t], last.table) :
                \A i \in 1..Len(disk[currentDb][t].rows) :
                \A k \in 1..Len(RemovedSoFar) :
                   Get(disk[currentDb][t].rows[i], field)
                     # Get(RemovedSoFar[k],
                           disk[currentDb][t].relationships[field].foreignKey)

(* The rows a select attached under the alias of its join *)
AttachedRows(slot) ==
    CASE slot.k = "obj" -> {slot.v}
      [] slot.k = "list" -> {slot.v[k] : k \in 1..Len(slot.v)}
      [] OTHER -> {}

(* C36: a use that fails leaves the selected database as it was; every     *)
(* other call leaves the selection and the files of every database but the *)
(* selected one as they were; an insert succeeds only when its references  *)
(* resolve in the selected database, a join attaches rows of the selected  *)
(* database only, and a cascade changes files of the selected database     *)
(* only.                                                                   *)
C36_SelectedDatabaseOnly ==
    [][/\ (last'.op = "use" /\ last'.res # "ok")
          => (currentDb' = currentDb /\ disk' = disk)
       /\ last'.op = "use" => disk' = disk
       /\ last'.op # "use"
          => /\ currentDb' = currentDb
             /\ \A d \in Databases \ {currentDb} : disk'[d] = disk[d]
       /\ (last'.op = "insert" /\ last'.res = "ok")
          => \A field \in DOMAIN disk[currentDb][last'.table].relationships :
                Get(last'.row, field).k # "undef"
                => ReferenceResolves(disk[currentDb],
                        disk[currentDb][last'.table].relationships[field],
                        last'.row[field])
       /\ (last'.op = "select" /\ last'.res = "ok"
            /\ "join" \in DOMAIN last'.options)
          => \A i \in 1..Len(last'.ret) :
             \A k \in 1..Len(last'.options.join) :
                LET join == last'.options.join[k]
                IN  \A jrow \in AttachedRows(Get(last'.ret[i], JoinAs(join))) :
                       \E m \in 1..Len(disk[currentDb][join.table].rows) :
                          disk[currentDb][join.table].rows[m] = jrow
      ]_vars

(* B is selected after A, a post was refused there for a user only A has,  *)
(* and A holds rows that are still there                                   *)
C36_Witness ==
    /\ currentDb = "B"
    /\ last.op = "insert" /\ last.table = "posts" /\ last.res = "fk_violation"
    /\ disk["A"]["users"].exists /\ Len(disk["A"]["users"].rows) > 0
    /\ disk["B"]["users"].exists

(* No value of an encrypted field of the selected table comes back tagged *)
OwnFieldsDecrypted ==
    \A i \in 1..Len(last.ret) :
    \A f \in EncryptedFields(LastTable) :
        Get(last.ret[i], f).k # "enc"

(* No foreign row attached by a join holds an encrypted field of its table *)
(* as the tagged object                                                    *)
JoinedFieldsDecrypted ==
    "join" \in DOMAIN last.options
    => \A k \in 1..Len(last.options.join) :
          LET join == last.options.join[k]
          IN  TableExists(join.table)
              => \A i \in 1..Len(last.ret) :
                 \A jrow \in AttachedRows(Get(last.ret[i], JoinAs(join))) :
                 \A f \in EncryptedFields(disk[currentDb][join.table]) :
                    Get(jrow, f).k # "enc"

(* C37: every stored cipher text being of its table's key, a select        *)
(* returns no tagged object in an encrypted field of the selected table's  *)
(* rows, nor in an encrypted field of the foreign rows a join attaches.    *)
C37_SelectReturnsNoCipherText ==
    (last.op = "select" /\ last.res = "ok")
    => (OwnFieldsDecrypted /\ JoinedFieldsDecrypted)

(* C38: a select given a limit of 0 or more returns at most that many      *)
(* rows, and a select given an offset o returns none of the first o rows   *)
(* of the filtered and sorted sequence.                                    *)
C38_LimitAndOffsetBound ==
    (last.op = "select" /\ last.res = "ok")
    => /\ ("limit" \in DOMAIN last.options /\ last.options.limit.n >= 0)
          => Len(last.ret) <= last.options.limit.n
       /\ ("offset" \in DOMAIN last.options /\ last.options.offset.n >= 0)
          => \A i \in 1..Len(BeforePaging) :
                i <= last.options.offset.n
                => \A k \in 1..Len(last.ret) :
                      Get(last.ret[k], "id") # Get(BeforePaging[i], "id")

====
